---- MODULE Spec2Model ----
(***************************************************************************)
(* Glyphs-App-Scripts: a model of the scripts' effect on the host font     *)
(* (font.glyphs, selection, masters) and of the AFII name resolver.        *)
(* Strings are Python strings; None is a value no glyph name can take.     *)
(***************************************************************************)
EXTENDS Integers, Sequences, FiniteSets, TLC

VARIABLES
    AFII_TO_UNICODE,      \* the module-level dict of "Rename AFII to Nice Names.py"
    authority,            \* how Glyphs.glyphInfoForUnicode answers (external, fixed per run)
    FONTTOOLS_AVAILABLE,  \* the optional imports succeeded
    DEFCON_AVAILABLE,
    script,               \* the script chosen from the Scripts menu
    fontOpen,             \* Glyphs.font is not None
    glyphs,               \* font.glyphs, in insertion order
    selected,             \* gids of the glyphs whose layers are in font.selectedLayers
    masters,              \* font.masters (master ids)
    nextGid,              \* identity of the next GSGlyph object created
    font0,                \* history: font.glyphs when the script started
    pc,                   \* position of the running script
    idx,                  \* position in the script's loop over its batch
    alerts,               \* titles of the Message()/alert boxes shown so far
    dialog,               \* the vanilla window the script has open ("none" if none)
    afii_glyphs,          \* AFII main: list of (old, new, tag) triples
    renamed_count,        \* AFII main: counters
    failed_count,
    outcomes,             \* AFII main: console log of the renaming loop
    created_count,        \* createNumberVariants: counters
    skipped_count,
    missing_glyphs_sorted,\* Add Missing Glyphs: the batch
    glyph_data,           \* Add Missing Glyphs: metadata read from the source
    added_count,          \* Add Missing Glyphs: counter
    failed_glyphs,        \* Add Missing Glyphs: (name, error) list
    current_master,       \* the master a dialog took as current when it opened (0: none)
    clicks,               \* times the dialog's action button was pressed
    target_color_obj,     \* Recolor: the fill colour the dialog was opened with
    call,                 \* the last library call: operation, arguments, result
    earlier               \* history: an earlier resolver call, remembered

envVars ==
    << AFII_TO_UNICODE, authority, FONTTOOLS_AVAILABLE, DEFCON_AVAILABLE, script,
       fontOpen, selected, masters, font0 >>

afiiVars == << afii_glyphs, renamed_count, failed_count, outcomes >>

nvVars == << created_count, skipped_count >>

amVars == << missing_glyphs_sorted, glyph_data, added_count, failed_glyphs >>

histVars == << call, earlier >>

dlgVars == << current_master, clicks, target_color_obj >>

vars ==
    << envVars, dlgVars, glyphs, nextGid, pc, idx, alerts, dialog, afiiVars, nvVars,
       amVars, histVars >>

----------------------------------------------------------------------------
(* Bounds *)

MaxGlyphs == 3

\* masters of the font in the specifications that use layers
MaxMasters == 2

\* glyphs in a source file
MaxSource == 2

\* alerts a dialog left open may show before the run is cut off
MaxAlerts == 2

\* presses of a dialog's action button before the run is cut off
MaxClicks == 2

\* glyphs of a font when a script is chosen from the menu
MaxPreGlyphs == 2

----------------------------------------------------------------------------
(* Python values and string helpers *)

None == "<None>"

startswith(s, p) == Len(s) >= Len(p) /\ SubSeq(s, 1, Len(p)) = p

HexDigits == "0123456789ABCDEF"

IsHexDigit(c) == \E i \in 1..16 : SubSeq(HexDigits, i, i) = c

HexVal(c) == (CHOOSE i \in 1..16 : SubSeq(HexDigits, i, i) = c) - 1

IsUpperHex(s) == \A i \in 1..Len(s) : IsHexDigit(SubSeq(s, i, i))

RECURSIVE HexToInt(_)
HexToInt(s) ==
    IF Len(s) = 0 THEN 0
    ELSE 16 * HexToInt(SubSeq(s, 1, Len(s) - 1)) + HexVal(SubSeq(s, Len(s), Len(s)))

Range(f) == { f[x] : x \in DOMAIN f }

\* the characters of the names used here, in code-point order
Ascii == " -.0123456789ABCDEFGHIJKLMNOPQRSTUVWXYZ_abcdefghijklmnopqrstuvwxyz"

ord(c) == CHOOSE i \in 1..Len(Ascii) : SubSeq(Ascii, i, i) = c

UpperCase == "ABCDEFGHIJKLMNOPQRSTUVWXYZ"
LowerCase == "abcdefghijklmnopqrstuvwxyz"

\* str.lower()
RECURSIVE lower(_)
lower(s) ==
    IF Len(s) = 0 THEN s
    ELSE LET c == SubSeq(s, 1, 1)
             lc == IF \E i \in 1..26 : SubSeq(UpperCase, i, i) = c
                       THEN LET i == CHOOSE i \in 1..26 : SubSeq(UpperCase, i, i) = c
                            IN SubSeq(LowerCase, i, i)
                   ELSE c IN
         lc \o lower(SubSeq(s, 2, Len(s)))

\* a < b for Python strings
RECURSIVE StrLess(_, _)
StrLess(a, b) ==
    IF Len(b) = 0 THEN FALSE
    ELSE IF Len(a) = 0 THEN TRUE
    ELSE IF SubSeq(a, 1, 1) = SubSeq(b, 1, 1)
        THEN StrLess(SubSeq(a, 2, Len(a)), SubSeq(b, 2, Len(b)))
    ELSE ord(SubSeq(a, 1, 1)) < ord(SubSeq(b, 1, 1))

\* sorted(list of strings): stable insertion
RECURSIVE sorted(_)
sorted(q) ==
    IF q = <<>> THEN <<>>
    ELSE LET rest == sorted(Tail(q))
             x == Head(q)
             k == Cardinality({ i \in DOMAIN rest : StrLess(rest[i], x) }) IN
         SubSeq(rest, 1, k) \o <<x>> \o SubSeq(rest, k + 1, Len(rest))

\* format(n, '04X')
RECURSIVE ToHex(_)
ToHex(n) ==
    IF n < 16 THEN SubSeq(HexDigits, n + 1, n + 1)
    ELSE ToHex(n \div 16) \o SubSeq(HexDigits, (n % 16) + 1, (n % 16) + 1)

format04X(n) ==
    LET h == ToHex(n) IN
    IF Len(h) >= 4 THEN h ELSE SubSeq("0000", 1, 4 - Len(h)) \o h

\* str.strip(): blanks removed at both ends
RECURSIVE strip(_)
strip(s) ==
    IF Len(s) = 0 THEN s
    ELSE IF SubSeq(s, 1, 1) = " " THEN strip(SubSeq(s, 2, Len(s)))
    ELSE IF SubSeq(s, Len(s), Len(s)) = " " THEN strip(SubSeq(s, 1, Len(s) - 1))
    ELSE s

\* str.lstrip(c): every leading c removed
RECURSIVE lstrip(_, _)
lstrip(s, c) ==
    IF Len(s) > 0 /\ SubSeq(s, 1, 1) = c THEN lstrip(SubSeq(s, 2, Len(s)), c) ELSE s

----------------------------------------------------------------------------
(* The AFII table *)

AFII_TABLE ==
    "afii10017" :> "0410" @@ "afii10018" :> "0411" @@ "afii10019" :> "0412" @@ "afii10020" :> "0413" @@
    "afii10021" :> "0414" @@ "afii10022" :> "0415" @@ "afii10023" :> "0401" @@ "afii10024" :> "0416" @@
    "afii10025" :> "0417" @@ "afii10026" :> "0418" @@ "afii10027" :> "0419" @@ "afii10028" :> "041A" @@
    "afii10029" :> "041B" @@ "afii10030" :> "041C" @@ "afii10031" :> "041D" @@ "afii10032" :> "041E" @@
    "afii10033" :> "041F" @@ "afii10034" :> "0420" @@ "afii10035" :> "0421" @@ "afii10036" :> "0422" @@
    "afii10037" :> "0423" @@ "afii10038" :> "0424" @@ "afii10039" :> "0425" @@ "afii10040" :> "0426" @@
    "afii10041" :> "0427" @@ "afii10042" :> "0428" @@ "afii10043" :> "0429" @@ "afii10044" :> "042A" @@
    "afii10045" :> "042B" @@ "afii10046" :> "042C" @@ "afii10047" :> "042D" @@ "afii10048" :> "042E" @@
    "afii10049" :> "042F" @@ "afii10065" :> "0430" @@ "afii10066" :> "0431" @@ "afii10067" :> "0432" @@
    "afii10068" :> "0433" @@ "afii10069" :> "0434" @@ "afii10070" :> "0435" @@ "afii10071" :> "0451" @@
    "afii10072" :> "0436" @@ "afii10073" :> "0437" @@ "afii10074" :> "0438" @@ "afii10075" :> "0439" @@
    "afii10076" :> "043A" @@ "afii10077" :> "043B" @@ "afii10078" :> "043C" @@ "afii10079" :> "043D" @@
    "afii10080" :> "043E" @@ "afii10081" :> "043F" @@ "afii10082" :> "0440" @@ "afii10083" :> "0441" @@
    "afii10084" :> "0442" @@ "afii10085" :> "0443" @@ "afii10086" :> "0444" @@ "afii10087" :> "0445" @@
    "afii10088" :> "0446" @@ "afii10089" :> "0447" @@ "afii10090" :> "0448" @@ "afii10091" :> "0449" @@
    "afii10092" :> "044A" @@ "afii10093" :> "044B" @@ "afii10094" :> "044C" @@ "afii10095" :> "044D" @@
    "afii10096" :> "044E" @@ "afii10097" :> "044F" @@ "afii10050" :> "0490" @@ "afii10098" :> "0491" @@
    "afii10051" :> "0402" @@ "afii10052" :> "0403" @@ "afii10053" :> "0404" @@ "afii10054" :> "0405" @@
    "afii10055" :> "0406" @@ "afii10056" :> "0407" @@ "afii10057" :> "0408" @@ "afii10058" :> "0409" @@
    "afii10059" :> "040A" @@ "afii10060" :> "040B" @@ "afii10061" :> "040C" @@ "afii10062" :> "040E" @@
    "afii10145" :> "040F" @@ "afii10099" :> "0452" @@ "afii10100" :> "0453" @@ "afii10101" :> "0454" @@
    "afii10102" :> "0455" @@ "afii10103" :> "0456" @@ "afii10104" :> "0457" @@ "afii10105" :> "0458" @@
    "afii10106" :> "0459" @@ "afii10107" :> "045A" @@ "afii10108" :> "045B" @@ "afii10109" :> "045C" @@
    "afii10110" :> "045E" @@ "afii10193" :> "045F" @@ "afii10146" :> "0462" @@ "afii10194" :> "0463" @@
    "afii10147" :> "0472" @@ "afii10195" :> "0473" @@ "afii10148" :> "0474" @@ "afii10196" :> "0475" @@
    "afii57664" :> "05D0" @@ "afii57665" :> "05D1" @@ "afii57666" :> "05D2" @@ "afii57667" :> "05D3" @@
    "afii57668" :> "05D4" @@ "afii57669" :> "05D5" @@ "afii57670" :> "05D6" @@ "afii57671" :> "05D7" @@
    "afii57672" :> "05D8" @@ "afii57673" :> "05D9" @@ "afii57674" :> "05DA" @@ "afii57675" :> "05DB" @@
    "afii57676" :> "05DC" @@ "afii57677" :> "05DD" @@ "afii57678" :> "05DE" @@ "afii57679" :> "05DF" @@
    "afii57680" :> "05E0" @@ "afii57681" :> "05E1" @@ "afii57682" :> "05E2" @@ "afii57683" :> "05E3" @@
    "afii57684" :> "05E4" @@ "afii57685" :> "05E5" @@ "afii57686" :> "05E6" @@ "afii57687" :> "05E7" @@
    "afii57688" :> "05E8" @@ "afii57689" :> "05E9" @@ "afii57690" :> "05EA" @@ "afii57595" :> "0391" @@
    "afii57596" :> "0392" @@ "afii57597" :> "0393" @@ "afii57598" :> "0394" @@ "afii57599" :> "0395" @@
    "afii57600" :> "0396" @@ "afii57601" :> "0397" @@ "afii57602" :> "0398" @@ "afii57603" :> "0399" @@
    "afii57604" :> "039A" @@ "afii57605" :> "039B" @@ "afii57606" :> "039C" @@ "afii57607" :> "039D" @@
    "afii57608" :> "039E" @@ "afii57609" :> "039F" @@ "afii57610" :> "03A0" @@ "afii57611" :> "03A1" @@
    "afii57612" :> "03A3" @@ "afii57613" :> "03A4" @@ "afii57614" :> "03A5" @@ "afii57615" :> "03A6" @@
    "afii57616" :> "03A7" @@ "afii57617" :> "03A8" @@ "afii57618" :> "03A9" @@ "afii57619" :> "03B1" @@
    "afii57620" :> "03B2" @@ "afii57621" :> "03B3" @@ "afii57622" :> "03B4" @@ "afii57623" :> "03B5" @@
    "afii57624" :> "03B6" @@ "afii57625" :> "03B7" @@ "afii57626" :> "03B8" @@ "afii57627" :> "03B9" @@
    "afii57628" :> "03BA" @@ "afii57629" :> "03BB" @@ "afii57630" :> "03BC" @@ "afii57631" :> "03BD" @@
    "afii57632" :> "03BE" @@ "afii57633" :> "03BF" @@ "afii57634" :> "03C0" @@ "afii57635" :> "03C1" @@
    "afii57636" :> "03C2" @@ "afii57637" :> "03C3" @@ "afii57638" :> "03C4" @@ "afii57639" :> "03C5" @@
    "afii57640" :> "03C6" @@ "afii57641" :> "03C7" @@ "afii57642" :> "03C8" @@ "afii57643" :> "03C9" @@
    "afii61664" :> "060C" @@ "afii61573" :> "061B" @@ "afii61574" :> "061F" @@ "afii08941" :> "20A4"

----------------------------------------------------------------------------
(* The naming authority: Glyphs.glyphInfoForUnicode.  It is external to the *)
(* script; a run fixes how it answers.  An answer is an exception, None, or *)
(* a glyph-info object with a name (possibly empty).                        *)

Throws == [kind |-> "throws", name |-> ""]
NoInfo == [kind |-> "none", name |-> ""]
Info(n) == [kind |-> "info", name |-> n]

\* code points whose answer is chosen individually
AuthCPs == {"0410", "03C5"}

AuthAnswers ==
    {Throws, NoInfo, Info(""), Info("A-cy"), Info("upsilon"), Info("uni0410")}

\* how every other code point is answered
AuthRest == {"throws", "nice", "uni"}

Authorities == [special : [AuthCPs -> AuthAnswers], rest : AuthRest]

glyphInfoForUnicode(unicode_value) ==
    IF unicode_value \in DOMAIN authority.special
        THEN authority.special[unicode_value]
    ELSE IF authority.rest = "throws" THEN Throws
    ELSE IF authority.rest = "nice" THEN Info("cp" \o unicode_value)
    ELSE Info("uni" \o unicode_value)

\* Python truthiness of an optional string
Truthy(s) == s # None /\ s # ""

----------------------------------------------------------------------------
(* Rename AFII to Nice Names.py: the resolver *)

\* variant: the check for "uni" names is missing
get_nice_name_any(unicode_value) ==
    LET glyph_info == glyphInfoForUnicode(unicode_value) IN
    IF glyph_info.kind = "throws" THEN None
    ELSE IF glyph_info.kind = "info" /\ glyph_info.name # ""
        THEN glyph_info.name
    ELSE None

\* variant: no try/except around the authority; the failure comes out
get_nice_name_uncaught(unicode_value) ==
    LET glyph_info == glyphInfoForUnicode(unicode_value) IN
    IF glyph_info.kind = "throws" THEN "<raised>"
    ELSE IF /\ glyph_info.kind = "info"
            /\ glyph_info.name # ""
            /\ ~startswith(glyph_info.name, "uni")
            /\ ~startswith(glyph_info.name, "u")
        THEN glyph_info.name
    ELSE None

get_nice_name_from_unicode(unicode_value) ==
    LET glyph_info == glyphInfoForUnicode(unicode_value) IN
    IF glyph_info.kind = "throws" THEN None                  \* except: pass
    ELSE IF /\ glyph_info.kind = "info"
            /\ glyph_info.name # ""
            /\ ~startswith(glyph_info.name, "uni")
            /\ ~startswith(glyph_info.name, "u")
        THEN glyph_info.name
    ELSE None

\* variant: the short prefix
uni_name_u(unicode_value) == "u" \o unicode_value

uni_name(unicode_value) == "uni" \o unicode_value

----------------------------------------------------------------------------
(* The host font: font.glyphs is a list of GSGlyph objects keyed by name *)

Layer(w, paths, comps) == [width |-> w, paths |-> paths, components |-> comps]

\* a path of a layer; attributes.get('fillColor') is fillColor
GSPath(fillColor) == [fillColor |-> fillColor]

\* GSComponent(name): a reference to another glyph, without attributes
GSComponent(componentName) == [componentName |-> componentName, fillColor |-> None]

\* GSGlyph(name): a new glyph object, with an empty layer for each master;
\* color is <<>> for None and <<index>> for a colour index
GSGlyph(gid, name, ms) ==
    [gid |-> gid, name |-> name, unicode |-> None, category |-> None,
     subCategory |-> None, script |-> None, color |-> <<>>,
     layers |-> [m \in ms |-> Layer(600, <<>>, <<>>)]]

\* a layer with drawn shapes: ink is the bounding box of its shapes,
\* <<xMin, xMax, yMin, yMax>>, which the host uses for LSB and RSB
InkLayer(w, ink, paths, comps) ==
    [width |-> w, paths |-> paths, components |-> comps, ink |-> ink]

\* layer.LSB, layer.RSB as the host computes them
LSB(layer) == layer.ink[1]

RSB(layer) == layer.width - layer.ink[2]

\* layer.LSB = v: the host shifts the shapes, the width follows, RSB stays
SetLSB(layer, v) ==
    LET d == v - layer.ink[1] IN
    [layer EXCEPT !.ink = << @[1] + d, @[2] + d, @[3], @[4] >>, !.width = @ + d]

\* layer.RSB = v: the host moves the right edge, LSB stays
SetRSB(layer, v) == [layer EXCEPT !.width = layer.ink[2] + v]

Min(S) == CHOOSE x \in S : \A y \in S : x <= y

Max(S) == CHOOSE x \in S : \A y \in S : x >= y

GlyphNames(gl) == { gl[i].name : i \in DOMAIN gl }

\* font.glyphs[name]: index of the glyph with that name, 0 for None
GlyphIndex(gl, name) ==
    IF \E i \in DOMAIN gl : gl[i].name = name
        THEN CHOOSE i \in DOMAIN gl :
                 /\ gl[i].name = name
                 /\ \A j \in DOMAIN gl : gl[j].name = name => i <= j
    ELSE 0

HasGlyph(gl, name) == GlyphIndex(gl, name) # 0

\* glyph.name = new_name
SetName(gl, i, new_name) == [gl EXCEPT ![i].name = new_name]

\* variant: a default code point for unknown keys
dict_get_default(d, k) == IF k \in DOMAIN d THEN d[k] ELSE "0000"

dict_get(d, k) == IF k \in DOMAIN d THEN d[k] ELSE None

\* variant: the resolver consults the font and avoids names already in use
get_new_name_for_afii_unused(afii_name) ==
    IF ~startswith(afii_name, "afii") THEN <<None, None>>
    ELSE LET unicode_value == dict_get(AFII_TO_UNICODE, afii_name) IN
         IF ~Truthy(unicode_value) THEN <<None, None>>
         ELSE LET nice_name == get_nice_name_from_unicode(unicode_value) IN
              IF Truthy(nice_name) /\ ~HasGlyph(glyphs, nice_name)
                  THEN <<nice_name, "nice">>
              ELSE <<uni_name(unicode_value), "uni">>

get_new_name_for_afii(afii_name) ==
    IF ~startswith(afii_name, "afii") THEN <<None, None>>
    ELSE LET unicode_value == dict_get(AFII_TO_UNICODE, afii_name) IN
         IF ~Truthy(unicode_value) THEN <<None, None>>
         ELSE LET nice_name == get_nice_name_from_unicode(unicode_value) IN
              IF Truthy(nice_name) THEN <<nice_name, "nice">>
              ELSE <<uni_name(unicode_value), "uni">>

\* variant: the target name is not looked up first
rename_glyph_unchecked(gl, old_name, new_name, raises) ==
    IF ~HasGlyph(gl, old_name) THEN [ok |-> FALSE, glyphs |-> gl]
    ELSE IF raises THEN [ok |-> FALSE, glyphs |-> gl]
    ELSE [ok |-> TRUE, glyphs |-> SetName(gl, GlyphIndex(gl, old_name), new_name)]

\* rename_glyph(font, old_name, new_name); raises: the host's name setter
\* raises an exception, which the function catches
rename_glyph(gl, old_name, new_name, raises) ==
    IF ~HasGlyph(gl, old_name) THEN [ok |-> FALSE, glyphs |-> gl]
    ELSE IF HasGlyph(gl, new_name) THEN [ok |-> FALSE, glyphs |-> gl]
    ELSE IF raises THEN [ok |-> FALSE, glyphs |-> gl]
    ELSE [ok |-> TRUE, glyphs |-> SetName(gl, GlyphIndex(gl, old_name), new_name)]

\* all fonts with at most n glyphs (distinct names from names, gids 1..n)
RECURSIVE FontsOver(_, _, _)
FontsOver(names, n, ms) ==
    IF n = 0 THEN { <<>> }
    ELSE LET smaller == FontsOver(names, n - 1, ms) IN
         smaller \cup
         { Append(gl, GSGlyph(Len(gl) + 1, nm, ms)) :
             <<gl, nm>> \in { p \in smaller \X names :
                                 /\ Len(p[1]) = n - 1
                                 /\ p[2] \notin GlyphNames(p[1]) } }

----------------------------------------------------------------------------
(* The functions of the AFII script called in any order on a font *)

NoCall == [op |-> "none", arg |-> <<>>, result |-> <<>>]

\* a call of get_new_name_for_afii(afii_name); it reads the table and asks
\* the authority, and assigns nothing
ResolveCall(afii_name) ==
    /\ call' = [op |-> "resolve", arg |-> <<afii_name>>,
                result |-> get_new_name_for_afii(afii_name)]
    /\ UNCHANGED << envVars, dlgVars, glyphs, nextGid, pc, idx, alerts, dialog >>
    /\ UNCHANGED << afiiVars, nvVars, amVars, earlier >>

\* the same call, remembered for later comparison
ResolveAndRemember(afii_name) ==
    /\ earlier = NoCall
    /\ call' = [op |-> "resolve", arg |-> <<afii_name>>,
                result |-> get_new_name_for_afii(afii_name)]
    /\ earlier' = call'
    /\ UNCHANGED << envVars, dlgVars, glyphs, nextGid, pc, idx, alerts, dialog >>
    /\ UNCHANGED << afiiVars, nvVars, amVars >>

\* a call of rename_glyph(font, old_name, new_name)
RenameCall(old_name, new_name, raises) ==
    LET r == rename_glyph(glyphs, old_name, new_name, raises) IN
    /\ glyphs' = r.glyphs
    /\ call' = [op |-> "rename", arg |-> <<old_name, new_name>>, result |-> <<r.ok>>]
    /\ UNCHANGED << envVars, dlgVars, nextGid, pc, idx, alerts, dialog >>
    /\ UNCHANGED << afiiVars, nvVars, amVars, earlier >>

----------------------------------------------------------------------------
(* Rename AFII to Nice Names.py: main() *)

\* all orders in which list(set(...)) may enumerate a set
Perms(S) ==
    { q \in [1..Cardinality(S) -> S] : \A i, j \in DOMAIN q : q[i] = q[j] => i = j }

Gids(gl) == { gl[i].gid : i \in DOMAIN gl }

\* names of the glyphs owning the selected layers (gid 0: a layer without parent)
SelectedNames(gl, sel) == { gl[i].name : i \in { j \in DOMAIN gl : gl[j].gid \in sel } }

\* lines 295-300: the (old, new, tag) triples of the selection, in list order
RECURSIVE BuildTriples(_)
BuildTriples(names) ==
    IF names = <<>> THEN <<>>
    ELSE LET glyph_name == Head(names)
             r == get_new_name_for_afii(glyph_name)
             rest == BuildTriples(Tail(names)) IN
         IF startswith(glyph_name, "afii") /\ Truthy(r[1])
             THEN << <<glyph_name, r[1], r[2]>> >> \o rest
         ELSE rest

Message(title) == alerts' = Append(alerts, title)

\* main() up to its first modal alert
AFIIMain ==
    /\ script = "afii"
    /\ pc = "start"
    /\ UNCHANGED << envVars, dlgVars, glyphs, nextGid, idx, dialog, nvVars, amVars, histVars >>
    /\ UNCHANGED << renamed_count, failed_count, outcomes >>
    /\ IF ~fontOpen
           THEN Message("No Font Open") /\ pc' = "done" /\ UNCHANGED afii_glyphs
       ELSE IF selected = {}
           THEN Message("No Selection") /\ pc' = "done" /\ UNCHANGED afii_glyphs
       ELSE IF SelectedNames(glyphs, selected) = {}
           THEN Message("No Valid Selection") /\ pc' = "done" /\ UNCHANGED afii_glyphs
       ELSE \E selected_glyph_names \in Perms(SelectedNames(glyphs, selected)) :
               LET found == BuildTriples(selected_glyph_names) IN
               IF found = <<>>
                   THEN Message("No AFII Glyphs") /\ pc' = "done" /\ UNCHANGED afii_glyphs
               ELSE /\ afii_glyphs' = found
                    /\ pc' = "confirm"
                    /\ UNCHANGED alerts

\* the confirmation alert returns: 1 is the default button (Rename)
AFIIConfirm(result) ==
    /\ script = "afii"
    /\ pc = "confirm"
    /\ pc' = IF result # 1 THEN "done" ELSE "renaming"
    /\ idx' = IF result # 1 THEN idx ELSE 1
    /\ UNCHANGED << envVars, dlgVars, glyphs, nextGid, alerts, dialog >>
    /\ UNCHANGED << afiiVars, nvVars, amVars, histVars >>

\* what the loop prints for a triple
Outcome(gl, old_name, new_name, ok) ==
    IF ok THEN "renamed"
    ELSE IF ~HasGlyph(gl, old_name) THEN "missing"
    ELSE IF HasGlyph(gl, new_name) THEN "conflict"
    ELSE "failed"

\* one iteration of the renaming loop; the last one also reports
AFIIRename(raises) ==
    /\ script = "afii"
    /\ pc = "renaming"
    /\ LET old_name == afii_glyphs[idx][1]
           new_name == afii_glyphs[idx][2]
           r == rename_glyph(glyphs, old_name, new_name, raises) IN
       /\ glyphs' = r.glyphs
       /\ renamed_count' = IF r.ok THEN renamed_count + 1 ELSE renamed_count
       /\ failed_count' = IF r.ok THEN failed_count ELSE failed_count + 1
       /\ outcomes' = Append(outcomes, Outcome(glyphs, old_name, new_name, r.ok))
    /\ idx' = idx + 1
    /\ IF idx = Len(afii_glyphs)
           THEN Message("Complete") /\ pc' = "done"
       ELSE UNCHANGED << alerts, pc >>
    /\ UNCHANGED << envVars, dlgVars, nextGid, dialog, afii_glyphs, nvVars, amVars, histVars >>

----------------------------------------------------------------------------
(* Copy Numbers to Number Style Variants.py: NumberVariantGenerator *)

base_numbers ==
    <<"zero", "one", "two", "three", "four", "five", "six", "seven", "eight", "nine">>

\* the six fixed checkboxes, in the order generateCallback reads them
StdVariants == <<"lf", "tf", "osf", "tosf", "dnom", "numr">>

\* lines 109-114: a custom stylistic-set checkbox and its text field
CustomVariant(checked, text) ==
    IF ~checked THEN <<>>
    ELSE LET stripped == strip(text)
             suffix == IF stripped # "" /\ ~startswith(stripped, ".")
                           THEN "." \o stripped ELSE stripped IN
         IF suffix # "" THEN << lstrip(suffix, ".") >> ELSE <<>>

\* lines 95-120: the variants list
CollectVariants(checks, ss01, ss01Text, ss02, ss02Text) ==
    LET Checked(v) == v \in checks IN
    SelectSeq(StdVariants, Checked)
        \o CustomVariant(ss01, ss01Text) \o CustomVariant(ss02, ss02Text)

\* del font.glyphs[name]
RemoveAt(gl, i) == SubSeq(gl, 1, i - 1) \o SubSeq(gl, i + 1, Len(gl))

\* lines 162-179: the new glyph, one component and the base width per master
NewVariant(gid, new_name, base_glyph, base_name, ms) ==
    [GSGlyph(gid, new_name, ms) EXCEPT
        !.layers = [m \in ms |->
                      Layer(base_glyph.layers[m].width, @[m].paths,
                            Append(@[m].components, GSComponent(base_name)))],
        !.category = base_glyph.category,
        !.subCategory = base_glyph.subCategory]

\* variant: an existing glyph is replaced whatever the checkbox says
RECURSIVE SuffixLoopAlways(_, _, _, _, _, _)
SuffixLoopAlways(st, base_glyph, base_name, suffixes, overwrite, ms) ==
    IF suffixes = <<>> THEN st
    ELSE LET new_name == base_name \o "." \o Head(suffixes)
             existing == GlyphIndex(st.glyphs, new_name)
             kept == IF existing # 0 THEN RemoveAt(st.glyphs, existing) ELSE st.glyphs
             made == NewVariant(st.nextGid, new_name, base_glyph, base_name, ms) IN
         SuffixLoopAlways([st EXCEPT !.glyphs = Append(kept, made),
                                     !.nextGid = @ + 1,
                                     !.created_count = @ + 1],
                          base_glyph, base_name, Tail(suffixes), overwrite, ms)

\* lines 149-182: the loop over the suffixes for one base glyph
RECURSIVE SuffixLoop(_, _, _, _, _, _)
SuffixLoop(st, base_glyph, base_name, suffixes, overwrite, ms) ==
    IF suffixes = <<>> THEN st
    ELSE LET new_name == base_name \o "." \o Head(suffixes)
             existing == GlyphIndex(st.glyphs, new_name) IN
         IF existing # 0 /\ ~overwrite
             THEN SuffixLoop([st EXCEPT !.skipped_count = @ + 1],
                             base_glyph, base_name, Tail(suffixes), overwrite, ms)
         ELSE LET kept == IF existing # 0 THEN RemoveAt(st.glyphs, existing)
                          ELSE st.glyphs
                  made == NewVariant(st.nextGid, new_name, base_glyph, base_name, ms) IN
              SuffixLoop([st EXCEPT !.glyphs = Append(kept, made),
                                    !.nextGid = @ + 1,
                                    !.created_count = @ + 1],
                         base_glyph, base_name, Tail(suffixes), overwrite, ms)

\* variant: a missing base glyph ends the loop over the base numbers
RECURSIVE BaseLoopStopping(_, _, _, _, _)
BaseLoopStopping(st, bases, suffixes, overwrite, ms) ==
    IF bases = <<>> THEN st
    ELSE LET base_name == Head(bases)
             i == GlyphIndex(st.glyphs, base_name) IN
         IF i = 0 THEN st
         ELSE BaseLoopStopping(SuffixLoop(st, st.glyphs[i], base_name, suffixes, overwrite, ms),
                               Tail(bases), suffixes, overwrite, ms)

\* lines 142-147: the loop over the base numbers
RECURSIVE BaseLoop(_, _, _, _, _)
BaseLoop(st, bases, suffixes, overwrite, ms) ==
    IF bases = <<>> THEN st
    ELSE LET base_name == Head(bases)
             i == GlyphIndex(st.glyphs, base_name) IN
         IF i = 0 THEN BaseLoop(st, Tail(bases), suffixes, overwrite, ms)
         ELSE BaseLoop(SuffixLoop(st, st.glyphs[i], base_name, suffixes, overwrite, ms),
                       Tail(bases), suffixes, overwrite, ms)

createNumberVariants(gl, gid, suffixes, overwrite, ms) ==
    BaseLoop([glyphs |-> gl, nextGid |-> gid, created_count |-> 0, skipped_count |-> 0],
             base_numbers, suffixes, overwrite, ms)

\* NumberVariantGenerator.__init__
NVInit ==
    /\ script = "numbers"
    /\ pc = "start"
    /\ IF ~fontOpen
           THEN Message("No Font Open") /\ pc' = "done" /\ UNCHANGED dialog
       ELSE dialog' = "Number Variant Generator" /\ pc' = "dialog" /\ UNCHANGED alerts
    /\ UNCHANGED << envVars, dlgVars, glyphs, nextGid, idx, afiiVars, nvVars, amVars, histVars >>

cancelCallback ==
    /\ script = "numbers"
    /\ pc = "dialog"
    /\ dialog' = "none"
    /\ pc' = "done"
    /\ UNCHANGED << envVars, dlgVars, glyphs, nextGid, idx, alerts >>
    /\ UNCHANGED << afiiVars, nvVars, amVars, histVars >>

generateCallback(checks, ss01, ss01Text, ss02, ss02Text, overwrite) ==
    /\ script = "numbers"
    /\ pc = "dialog"
    /\ LET variants == CollectVariants(checks, ss01, ss01Text, ss02, ss02Text) IN
       IF variants = <<>>
           THEN /\ Len(alerts) < MaxAlerts
                /\ Message("No Variants Selected")
                /\ UNCHANGED << glyphs, nextGid, nvVars, dialog, pc, call >>
       ELSE LET st == createNumberVariants(glyphs, nextGid, variants, overwrite, masters) IN
            /\ glyphs' = st.glyphs
            /\ nextGid' = st.nextGid
            /\ created_count' = st.created_count
            /\ skipped_count' = st.skipped_count
            /\ Message("Generation Complete")
            /\ dialog' = "none"
            /\ pc' = "done"
            /\ call' = [op |-> "createNumberVariants",
                        arg |-> <<variants, overwrite>>, result |-> <<>>]
    /\ UNCHANGED << envVars, dlgVars, idx, afiiVars, amVars, earlier >>

----------------------------------------------------------------------------
(* Add Missing Glyphs from Source Font.py *)

\* a source file: its extension as written, whether it is a directory,
\* whether its reader fails on it, and the glyphs it holds
SourceFile(ext, isdir, corrupt, font) ==
    [ext |-> ext, isdir |-> isdir, corrupt |-> corrupt, font |-> font]

SourceGlyph(name, unicodes, category, subCategory, scr) ==
    [name |-> name, unicodes |-> unicodes, category |-> category,
     subCategory |-> subCategory, script |-> scr]

Failure(msg) == [ok |-> FALSE, error |-> msg, glyph_names |-> <<>>, glyph_data |-> <<>>]

\* glyph names in file order
SourceNames(font) == [i \in DOMAIN font |-> font[i].name]

FirstUnicode(g) == IF g.unicodes = <<>> THEN None ELSE format04X(g.unicodes[1])

\* the metadata each reader returns per glyph name; only a Glyphs file
\* carries a category
SourceData(font, withCategory) ==
    [n \in Range(SourceNames(font)) |->
        LET g == font[CHOOSE i \in DOMAIN font :
                          font[i].name = n
                          /\ \A j \in DOMAIN font : font[j].name = n => i <= j] IN
        [unicode |-> FirstUnicode(g),
         category |-> IF withCategory THEN g.category ELSE None,
         subCategory |-> IF withCategory THEN g.subCategory ELSE None,
         script |-> IF withCategory THEN g.script ELSE None]]

\* the reader a dispatch hands the path to, and what it returns
ReadBy(reader, r) ==
    [reader |-> reader, ok |-> r.ok, error |-> r.error,
     glyph_names |-> r.glyph_names, glyph_data |-> r.glyph_data]

\* variant: a path with an unknown extension is tried as a compiled font
get_glyphs_and_data_guess(src) ==
    LET ext == lower(src.ext) IN
    IF ext \in {".glyphs", ".glyphx"}
        THEN ReadBy("glyphs",
                 IF src.corrupt THEN Failure("cannot read Glyphs file")
                 ELSE [ok |-> TRUE, error |-> "", glyph_names |-> SourceNames(src.font),
                       glyph_data |-> SourceData(src.font, TRUE)])
    ELSE IF ext = ".ufo" \/ src.isdir
        THEN ReadBy("ufo",
                 IF ~DEFCON_AVAILABLE
                     THEN Failure("defcon is required for UFO files. Install with: pip3 install defcon")
                 ELSE IF src.corrupt THEN Failure("cannot read UFO")
                 ELSE [ok |-> TRUE, error |-> "", glyph_names |-> SourceNames(src.font),
                       glyph_data |-> SourceData(src.font, FALSE)])
    ELSE ReadBy("binary",
             IF ~FONTTOOLS_AVAILABLE
                 THEN Failure("fontTools is required for TTF/OTF files. Install with: pip3 install fonttools")
             ELSE IF src.corrupt THEN Failure("cannot read font")
             ELSE [ok |-> TRUE, error |-> "", glyph_names |-> SourceNames(src.font),
                   glyph_data |-> SourceData(src.font, FALSE)])

get_glyphs_and_data(src) ==
    LET ext == lower(src.ext) IN
    IF ext \in {".glyphs", ".glyphx"}
        THEN ReadBy("glyphs",
                 IF src.corrupt THEN Failure("cannot read Glyphs file")
                 ELSE [ok |-> TRUE, error |-> "", glyph_names |-> SourceNames(src.font),
                       glyph_data |-> SourceData(src.font, TRUE)])
    ELSE IF ext = ".ufo" \/ src.isdir
        THEN ReadBy("ufo",
                 IF ~DEFCON_AVAILABLE
                     THEN Failure("defcon is required for UFO files. Install with: pip3 install defcon")
                 ELSE IF src.corrupt THEN Failure("cannot read UFO")
                 ELSE [ok |-> TRUE, error |-> "", glyph_names |-> SourceNames(src.font),
                       glyph_data |-> SourceData(src.font, FALSE)])
    ELSE IF ext \in {".ttf", ".otf"}
        THEN ReadBy("binary",
                 IF ~FONTTOOLS_AVAILABLE
                     THEN Failure("fontTools is required for TTF/OTF files. Install with: pip3 install fonttools")
                 ELSE IF src.corrupt THEN Failure("cannot read font")
                 ELSE [ok |-> TRUE, error |-> "", glyph_names |-> SourceNames(src.font),
                       glyph_data |-> SourceData(src.font, FALSE)])
    ELSE ReadBy("none", Failure("Unsupported format: " \o ext))

\* lines 227-234: the source names absent from the font in every case variation
RECURSIVE MissingGlyphs(_, _)
MissingGlyphs(source_glyphs, current_lower) ==
    IF source_glyphs = <<>> THEN <<>>
    ELSE IF lower(Head(source_glyphs)) \in current_lower
        THEN MissingGlyphs(Tail(source_glyphs), current_lower)
    ELSE <<Head(source_glyphs)>> \o MissingGlyphs(Tail(source_glyphs), current_lower)

NoGlyphInfo == [unicode |-> None, category |-> None, subCategory |-> None, script |-> None]

\* add_glyph_to_font(font, glyph_name, glyph_info)
add_glyph_to_font(gl, gid, glyph_name, glyph_info, ms) ==
    Append(gl,
           [GSGlyph(gid, glyph_name, ms) EXCEPT
               !.unicode = IF Truthy(glyph_info.unicode) THEN glyph_info.unicode ELSE @,
               !.category = IF Truthy(glyph_info.category) THEN glyph_info.category ELSE @,
               !.subCategory =
                   IF Truthy(glyph_info.subCategory) THEN glyph_info.subCategory ELSE @,
               !.script = IF Truthy(glyph_info.script) THEN glyph_info.script ELSE @])

\* variant: the glyph is added without looking it up first
AlreadyThereNever(gl, glyph_name) == FALSE

\* line 285: font.glyphs[glyph_name] is not None
AlreadyThere(gl, glyph_name) == HasGlyph(gl, glyph_name)

\* main() up to the file panel
AMMain ==
    /\ script = "addmissing"
    /\ pc = "start"
    /\ IF ~fontOpen
           THEN Message("No Font Open") /\ pc' = "done"
       ELSE pc' = "pick" /\ UNCHANGED alerts
    /\ UNCHANGED << envVars, dlgVars, glyphs, nextGid, idx, dialog >>
    /\ UNCHANGED << afiiVars, nvVars, amVars, histVars >>

\* the file panel is cancelled
AMCancelPick ==
    /\ script = "addmissing"
    /\ pc = "pick"
    /\ pc' = "done"
    /\ UNCHANGED << envVars, dlgVars, glyphs, nextGid, idx, alerts, dialog >>
    /\ UNCHANGED << afiiVars, nvVars, amVars, histVars >>

\* the file panel returns a path: read the source, up to the confirmation alert
AMPick(src) ==
    /\ script = "addmissing"
    /\ pc = "pick"
    /\ LET r == get_glyphs_and_data(src)
           current_lower == { lower(n) : n \in GlyphNames(glyphs) }
           missing_glyphs == MissingGlyphs(r.glyph_names, current_lower) IN
       /\ call' = [op |-> "get_glyphs_and_data", arg |-> <<src.ext, src.isdir, src.font>>,
                   result |-> <<r.ok, r.error, r.reader>>]
       /\ IF ~r.ok
              THEN Message("Error") /\ pc' = "done"
                   /\ UNCHANGED << missing_glyphs_sorted, glyph_data >>
          ELSE IF missing_glyphs = <<>>
              THEN Message("No Missing Glyphs") /\ pc' = "done"
                   /\ UNCHANGED << missing_glyphs_sorted, glyph_data >>
          ELSE /\ missing_glyphs_sorted' = sorted(missing_glyphs)
               /\ glyph_data' = r.glyph_data
               /\ pc' = "confirm"
               /\ UNCHANGED alerts
    /\ UNCHANGED << envVars, dlgVars, glyphs, nextGid, idx, dialog >>
    /\ UNCHANGED << afiiVars, nvVars, added_count, failed_glyphs, earlier >>

\* the confirmation alert returns: 1 is the default button (Add Glyphs)
AMConfirm(result) ==
    /\ script = "addmissing"
    /\ pc = "confirm"
    /\ pc' = IF result # 1 THEN "done" ELSE "adding"
    /\ idx' = IF result # 1 THEN idx ELSE 1
    /\ UNCHANGED << envVars, dlgVars, glyphs, nextGid, alerts, dialog >>
    /\ UNCHANGED << afiiVars, nvVars, amVars, histVars >>

\* one iteration of the adding loop; raises: add_glyph_to_font fails.  The
\* last iteration also reports.
AMAdd(raises) ==
    /\ script = "addmissing"
    /\ pc = "adding"
    /\ LET glyph_name == missing_glyphs_sorted[idx]
           info == IF glyph_name \in DOMAIN glyph_data THEN glyph_data[glyph_name]
                   ELSE NoGlyphInfo IN
       IF AlreadyThere(glyphs, glyph_name)
           THEN UNCHANGED << glyphs, nextGid, added_count, failed_glyphs >>
       ELSE IF raises
           THEN /\ failed_glyphs' = Append(failed_glyphs, glyph_name)
                /\ UNCHANGED << glyphs, nextGid, added_count >>
       ELSE /\ glyphs' = add_glyph_to_font(glyphs, nextGid, glyph_name, info, masters)
            /\ nextGid' = nextGid + 1
            /\ added_count' = added_count + 1
            /\ UNCHANGED failed_glyphs
    /\ idx' = idx + 1
    /\ IF idx = Len(missing_glyphs_sorted)
           THEN Message("Success") /\ pc' = "done"
       ELSE UNCHANGED << alerts, pc >>
    /\ UNCHANGED << envVars, dlgVars, dialog, missing_glyphs_sorted, glyph_data >>
    /\ UNCHANGED << afiiVars, nvVars, histVars >>

----------------------------------------------------------------------------
(* The remaining scripts, from the menu click to their first window *)

\* what a script's opening checks leave alone
batchVars == << afiiVars, nvVars, amVars, histVars >>

\* Copy Widths from Source Font.py: main() up to the file panel
CopyWidthsMain ==
    /\ script = "widths"
    /\ pc = "start"
    /\ IF ~fontOpen
           THEN Message("No Font Open") /\ pc' = "done"
       ELSE IF selected = {}
           THEN Message("No Selection") /\ pc' = "done"
       ELSE IF SelectedNames(glyphs, selected) = {}
           THEN Message("No Valid Selection") /\ pc' = "done"
       ELSE pc' = "pick" /\ UNCHANGED alerts
    /\ UNCHANGED << envVars, dlgVars, glyphs, nextGid, idx, dialog, batchVars >>

\* variant: the dialog is shown whatever the number of masters
SidebearingsMainAnyMasters ==
    /\ script = "sidebearings"
    /\ pc = "start"
    /\ IF ~fontOpen
           THEN Message("No Font Open") /\ pc' = "done" /\ UNCHANGED << dialog, dlgVars >>
       ELSE IF selected = {}
           THEN Message("No Selection") /\ pc' = "done" /\ UNCHANGED << dialog, dlgVars >>
       ELSE /\ dialog' = "Copy Sidebearings to Masters"
            /\ current_master' \in masters
            /\ UNCHANGED << clicks, target_color_obj >>
            /\ pc' = "dialog"
            /\ UNCHANGED alerts
    /\ UNCHANGED << envVars, glyphs, nextGid, idx, batchVars >>

\* Selectively copy side bearings of selected glyphs to other masters.py:
\* main() up to CopySidebearingsDialog()
SidebearingsMain ==
    /\ script = "sidebearings"
    /\ pc = "start"
    /\ IF ~fontOpen
           THEN Message("No Font Open") /\ pc' = "done" /\ UNCHANGED << dialog, dlgVars >>
       ELSE IF Cardinality(masters) < 2
           THEN Message("Only One Master") /\ pc' = "done" /\ UNCHANGED << dialog, dlgVars >>
       ELSE IF selected = {}
           THEN Message("No Selection") /\ pc' = "done" /\ UNCHANGED << dialog, dlgVars >>
       ELSE /\ dialog' = "Copy Sidebearings to Masters"
            /\ current_master' \in masters
            /\ UNCHANGED << clicks, target_color_obj >>
            /\ pc' = "dialog"
            /\ UNCHANGED alerts
    /\ UNCHANGED << envVars, glyphs, nextGid, idx, batchVars >>

\* Italicize - (Condense & Slant).py: main() up to TransformDialog()
ItalicizeMain ==
    /\ script = "italicize"
    /\ pc = "start"
    /\ IF ~fontOpen
           THEN Message("No Font Open") /\ pc' = "done" /\ UNCHANGED << dialog, dlgVars >>
       ELSE IF selected = {}
           THEN Message("No Selection") /\ pc' = "done" /\ UNCHANGED << dialog, dlgVars >>
       ELSE /\ dialog' = "Transform Glyphs"
            /\ current_master' \in masters
            /\ UNCHANGED << clicks, target_color_obj >>
            /\ pc' = "dialog"
            /\ UNCHANGED alerts
    /\ UNCHANGED << envVars, glyphs, nextGid, idx, batchVars >>

\* Italicize Each Master - (Condense & Slant).py: main() up to TransformDialog()
ItalicizeEachMain ==
    /\ script = "italicizeEach"
    /\ pc = "start"
    /\ IF ~fontOpen
           THEN Message("No Font Open") /\ pc' = "done" /\ UNCHANGED << dialog, dlgVars >>
       ELSE IF selected = {}
           THEN Message("No Selection") /\ pc' = "done" /\ UNCHANGED << dialog, dlgVars >>
       ELSE /\ dialog' = "Transform Glyphs"
            /\ current_master' \in masters
            /\ UNCHANGED << clicks, target_color_obj >>
            /\ pc' = "dialog"
            /\ UNCHANGED alerts
    /\ UNCHANGED << envVars, glyphs, nextGid, idx, batchVars >>

\* Recolor Glyph Parts.py: the NSColor objects that have calibrated
\* components, with their red, green and blue components in units of 1/2550
\* (a tenth of an 8-bit step); for any other colour object the component
\* calls raise
CalibratedRGB ==
    [red |-> <<2550, 0, 0>>, nearRed |-> <<2548, 0, 0>>, blue |-> <<0, 0, 2550>>,
     black |-> <<0, 0, 0>>]

\* int(round(component * 255)) of each component
ColorRGB ==
    [c \in DOMAIN CalibratedRGB |->
        << (CalibratedRGB[c][1] + 5) \div 10, (CalibratedRGB[c][2] + 5) \div 10,
           (CalibratedRGB[c][3] + 5) \div 10 >>]

nscolor_to_rgb(nscolor) ==
    IF nscolor = None THEN None
    ELSE IF nscolor \in DOMAIN ColorRGB THEN ColorRGB[nscolor]
    ELSE None

\* the fillColor of the first shape that has one with readable components
RECURSIVE FirstFillColor(_)
FirstFillColor(shapes) ==
    IF shapes = <<>> THEN None
    ELSE LET fill_color == Head(shapes).fillColor IN
         IF Truthy(fill_color) /\ nscolor_to_rgb(fill_color) # None THEN fill_color
         ELSE FirstFillColor(Tail(shapes))

\* get_color_from_shape(layer): paths first, then components
get_color_from_shape(layer) ==
    LET fromPaths == FirstFillColor(layer.paths) IN
    IF fromPaths # None THEN fromPaths ELSE FirstFillColor(layer.components)

\* the selected layers: the layer of some master for each selected glyph
\* (a selected layer without parent glyph has no shapes to look at)
SelectedLayers(gl, sel, m) ==
    { gl[i].layers[m] : i \in { j \in DOMAIN gl : gl[j].gid \in sel } }

\* Recolor Glyph Parts.py: main() up to RecolorDialog()
RecolorMain ==
    /\ script = "recolor"
    /\ pc = "start"
    /\ IF ~fontOpen
           THEN /\ Message("No Font Open")
                /\ pc' = "done"
                /\ UNCHANGED << dialog, target_color_obj >>
       ELSE IF selected = {}
           THEN /\ Message("No Selection")
                /\ pc' = "done"
                /\ UNCHANGED << dialog, target_color_obj >>
       ELSE \E m \in masters :
               \* the colour of the first selected layer that has one, in the
               \* order the host lists the selected layers
               LET found == { get_color_from_shape(layer) :
                                layer \in SelectedLayers(glyphs, selected, m) } \ { None } IN
               IF found = {}
                   THEN /\ Message("No Color Found")
                        /\ pc' = "done"
                        /\ UNCHANGED << dialog, target_color_obj >>
               ELSE /\ target_color_obj' \in found
                    /\ dialog' = "Recolor Glyph Parts"
                    /\ pc' = "dialog"
                    /\ UNCHANGED alerts
    /\ UNCHANGED << envVars, current_master, clicks, glyphs, nextGid, idx, batchVars >>

\* Color Glyphs by Content Type.py
GREEN == 5

YELLOW == 3

\* variant: only the first layer of the glyph is looked at
analyze_first_layer(glyph) ==
    LET first == glyph.layers[Min(DOMAIN glyph.layers)]
        has_paths == Len(first.paths) > 0
        has_components == Len(first.components) > 0 IN
    IF has_paths /\ ~has_components THEN "paths_only"
    ELSE IF has_components /\ ~has_paths THEN "components_only"
    ELSE IF ~has_paths /\ ~has_components THEN "empty"
    ELSE "both"

analyze_glyph_content(glyph) ==
    LET has_paths == \E m \in DOMAIN glyph.layers : Len(glyph.layers[m].paths) > 0
        has_components ==
            \E m \in DOMAIN glyph.layers : Len(glyph.layers[m].components) > 0 IN
    IF has_paths /\ ~has_components THEN "paths_only"
    ELSE IF has_components /\ ~has_paths THEN "components_only"
    ELSE IF ~has_paths /\ ~has_components THEN "empty"
    ELSE "both"

\* the colour color_glyphs assigns for a content type
ContentColor(content_type) ==
    IF content_type = "paths_only" THEN << GREEN >>
    ELSE IF content_type = "both" THEN << YELLOW >>
    ELSE <<>>

\* the counter of a content type after the loop over font.glyphs
ContentCount(gl, content_type) ==
    Cardinality({ i \in DOMAIN gl : analyze_glyph_content(gl[i]) = content_type })

\* color_glyphs(): the whole script, it has no window; the call's result
\* holds paths_only_count, both_count, components_only_count, empty_count
color_glyphs ==
    /\ script = "colorglyphs"
    /\ pc = "start"
    /\ IF ~fontOpen
           THEN Message("No Font Open") /\ UNCHANGED << glyphs, call >>
       ELSE /\ glyphs' = [i \in DOMAIN glyphs |->
                            [glyphs[i] EXCEPT
                                !.color = ContentColor(analyze_glyph_content(glyphs[i]))]]
            /\ call' = [op |-> "color_glyphs", arg |-> <<>>,
                        result |-> << ContentCount(glyphs, "paths_only"),
                                      ContentCount(glyphs, "both"),
                                      ContentCount(glyphs, "components_only"),
                                      ContentCount(glyphs, "empty") >>]
            /\ Message("Coloring Complete")
    /\ pc' = "done"
    /\ UNCHANGED << envVars, dlgVars, nextGid, idx, dialog, afiiVars, nvVars, amVars, earlier >>

----------------------------------------------------------------------------
(* Copy Widths from Source Font.py: from the file panel to the report *)

\* a glyph of a width source: its advance width in the first master (or
\* the only one), and the code points mapped to it
WidthGlyph(name, unicodes, width) ==
    [name |-> name, unicodes |-> unicodes, width |-> width]

\* a dict built by assignments in order: a later key replaces an earlier one
RECURSIVE DictOf(_)
DictOf(pairs) ==
    IF pairs = <<>> THEN <<>>
    ELSE LET last == pairs[Len(pairs)]
             before == DictOf(SubSeq(pairs, 1, Len(pairs) - 1)) IN
         [k \in (DOMAIN before) \cup {last[1]} |->
             IF k = last[1] THEN last[2] ELSE before[k]]

\* widths[glyph.name] = width, for each glyph of the source
NameWidths(font) == DictOf([i \in DOMAIN font |-> <<font[i].name, font[i].width>>])

\* Glyphs file and UFO: the first code point of each glyph that has one
RECURSIVE FirstUnicodeWidths(_)
FirstUnicodeWidths(font) ==
    IF font = <<>> THEN <<>>
    ELSE LET g == Head(font) IN
         (IF g.unicodes = <<>> THEN <<>>
          ELSE << <<format04X(g.unicodes[1]), g.width>> >>)
             \o FirstUnicodeWidths(Tail(font))

\* compiled font: every code point of the cmap
RECURSIVE CmapWidths(_)
CmapWidths(font) ==
    IF font = <<>> THEN <<>>
    ELSE LET g == Head(font) IN
         [i \in DOMAIN g.unicodes |-> <<format04X(g.unicodes[i]), g.width>>]
             \o CmapWidths(Tail(font))

NoWidths(reader, msg) ==
    [reader |-> reader, ok |-> FALSE, error |-> msg,
     widths |-> <<>>, unicode_to_width |-> <<>>]

\* variant: a missing reader library gives an empty source instead of an error
read_widths_silent(src) ==
    LET ext == lower(src.ext) IN
    IF ext \in {".glyphs", ".glyphx"}
        THEN IF src.corrupt THEN NoWidths("glyphs", "Failed to read Glyphs file: ")
             ELSE [reader |-> "glyphs", ok |-> TRUE, error |-> "",
                   widths |-> NameWidths(src.font),
                   unicode_to_width |-> DictOf(FirstUnicodeWidths(src.font))]
    ELSE IF ext = ".ufo" \/ src.isdir
        THEN IF ~DEFCON_AVAILABLE
                 THEN [reader |-> "ufo", ok |-> TRUE, error |-> "",
                       widths |-> <<>>, unicode_to_width |-> <<>>]
             ELSE IF src.corrupt THEN NoWidths("ufo", "Failed to read UFO: ")
             ELSE [reader |-> "ufo", ok |-> TRUE, error |-> "",
                   widths |-> NameWidths(src.font),
                   unicode_to_width |-> DictOf(FirstUnicodeWidths(src.font))]
    ELSE IF ext \in {".ttf", ".otf"}
        THEN IF ~FONTTOOLS_AVAILABLE
                 THEN [reader |-> "binary", ok |-> TRUE, error |-> "",
                       widths |-> <<>>, unicode_to_width |-> <<>>]
             ELSE IF src.corrupt THEN NoWidths("binary", "Failed to read binary font: ")
             ELSE [reader |-> "binary", ok |-> TRUE, error |-> "",
                   widths |-> NameWidths(src.font),
                   unicode_to_width |-> DictOf(CmapWidths(src.font))]
    ELSE NoWidths("none", "Unsupported file format: " \o ext
                              \o "\nSupported: .glyphs, .glyphx, .ufo, .ttf, .otf")

\* read_widths(source_path), for a path that exists
read_widths(src) ==
    LET ext == lower(src.ext) IN
    IF ext \in {".glyphs", ".glyphx"}
        THEN IF src.corrupt THEN NoWidths("glyphs", "Failed to read Glyphs file: ")
             ELSE [reader |-> "glyphs", ok |-> TRUE, error |-> "",
                   widths |-> NameWidths(src.font),
                   unicode_to_width |-> DictOf(FirstUnicodeWidths(src.font))]
    ELSE IF ext = ".ufo" \/ src.isdir
        THEN IF ~DEFCON_AVAILABLE
                 THEN NoWidths("ufo", "defcon library is required for UFO files.\nInstall with: pip3 install defcon")
             ELSE IF src.corrupt THEN NoWidths("ufo", "Failed to read UFO: ")
             ELSE [reader |-> "ufo", ok |-> TRUE, error |-> "",
                   widths |-> NameWidths(src.font),
                   unicode_to_width |-> DictOf(FirstUnicodeWidths(src.font))]
    ELSE IF ext \in {".ttf", ".otf"}
        THEN IF ~FONTTOOLS_AVAILABLE
                 THEN NoWidths("binary", "fontTools library is required for TTF/OTF files.\nInstall with: pip3 install fonttools")
             ELSE IF src.corrupt THEN NoWidths("binary", "Failed to read binary font: ")
             ELSE [reader |-> "binary", ok |-> TRUE, error |-> "",
                   widths |-> NameWidths(src.font),
                   unicode_to_width |-> DictOf(CmapWidths(src.font))]
    ELSE NoWidths("none", "Unsupported file format: " \o ext
                              \o "\nSupported: .glyphs, .glyphx, .ufo, .ttf, .otf")

\* lines 223-238: the width to copy for a selected name, None if unmatched
WidthToCopy(gl, name, r) ==
    IF name \in DOMAIN r.widths THEN << r.widths[name] >>
    ELSE LET target_glyph == gl[GlyphIndex(gl, name)] IN
         IF Truthy(target_glyph.unicode) /\ target_glyph.unicode \in DOMAIN r.unicode_to_width
             THEN << r.unicode_to_width[target_glyph.unicode] >>
         ELSE <<>>

\* layer.width = width
SetWidth(layer, w) == [layer EXCEPT !.width = w]

\* lines 267-275: the widths applied to every master of every matched glyph
ApplyWidths(gl, names, r) ==
    [i \in DOMAIN gl |->
        IF gl[i].name \in names /\ WidthToCopy(gl, gl[i].name, r) # <<>>
            THEN [gl[i] EXCEPT
                     !.layers = [m \in DOMAIN @ |->
                                   SetWidth(@[m], WidthToCopy(gl, gl[i].name, r)[1])]]
        ELSE gl[i]]

\* the file panel is cancelled
CopyWidthsCancel ==
    /\ script = "widths"
    /\ pc = "pick"
    /\ pc' = "done"
    /\ UNCHANGED << envVars, dlgVars, glyphs, nextGid, idx, alerts, dialog, batchVars >>

\* the file panel returns a path: the rest of main()
CopyWidthsPick(src) ==
    /\ script = "widths"
    /\ pc = "pick"
    /\ LET r == read_widths(src)
           selected_glyph_names == SelectedNames(glyphs, selected)
           matched == { n \in selected_glyph_names : WidthToCopy(glyphs, n, r) # <<>> } IN
       /\ call' = [op |-> "read_widths", arg |-> <<src.ext, src.isdir, src.font>>,
                   result |-> <<r.ok, r.error, r.reader>>]
       /\ IF ~r.ok
              THEN Message("Error") /\ UNCHANGED glyphs
          ELSE IF matched = {}
              THEN Message("No Matches") /\ UNCHANGED glyphs
          ELSE /\ glyphs' = ApplyWidths(glyphs, selected_glyph_names, r)
               /\ Message("Success")
    /\ pc' = "done"
    /\ UNCHANGED << envVars, dlgVars, nextGid, idx, dialog, afiiVars, nvVars, amVars, earlier >>

----------------------------------------------------------------------------
(* Italicize - (Condense & Slant).py and Italicize Each Master: the dialog *)

\* float(text): <<>> for a text that is not a number (ValueError), else <<n>>
NotANumber == <<>>

\* math.tan(math.radians(slant_degrees)) for the angles used here
Tan(slant_degrees) ==
    IF slant_degrees = 45 THEN 1 ELSE IF slant_degrees = 0 - 45 THEN 0 - 1 ELSE 0

\* the transform struct: scale x by condense_percent / 100, then shear x by
\* skew * y (m21); only m11 and m21 differ from the identity
TransformStruct(condense_percent, slant_degrees) ==
    [m11 |-> condense_percent, m21 |-> IF slant_degrees # 0 THEN Tan(slant_degrees) ELSE 0]

\* path.applyTransform / component.applyTransform on every shape of the
\* layer: the bounding box of the transformed shapes (m11 is in percent)
applyTransform(layer, t) ==
    LET xs == { (t.m11 * x) \div 100 + t.m21 * y :
                    x \in {layer.ink[1], layer.ink[2]}, y \in {layer.ink[3], layer.ink[4]} } IN
    [layer EXCEPT !.ink = << Min(xs), Max(xs), @[3], @[4] >>]

\* original * (sidebearing_percent / 100.0)
ScaleBy(original, percent) == (original * percent) \div 100

\* variant: the sidebearings are taken after the shapes are transformed
transform_layer_late(layer, condense_percent, slant_degrees, sidebearing_percent, fails) ==
    IF fails = "shapes" THEN [ok |-> FALSE, layer |-> layer]
    ELSE LET transformed ==
                 applyTransform(layer, TransformStruct(condense_percent, slant_degrees))
             original_lsb == LSB(transformed)
             original_rsb == RSB(transformed) IN
         IF fails = "sidebearings" THEN [ok |-> FALSE, layer |-> transformed]
         ELSE [ok |-> TRUE,
               layer |-> SetRSB(SetLSB(transformed, ScaleBy(original_lsb, sidebearing_percent)),
                                ScaleBy(original_rsb, sidebearing_percent))]

\* transform_layer(layer, ...); fails: where the host raises, if it does:
\* "shapes" at the first applyTransform, "sidebearings" at layer.LSB = ...
transform_layer(layer, condense_percent, slant_degrees, sidebearing_percent, fails) ==
    LET original_lsb == LSB(layer)
        original_rsb == RSB(layer) IN
    IF fails = "shapes" THEN [ok |-> FALSE, layer |-> layer]
    ELSE LET transformed ==
                 applyTransform(layer, TransformStruct(condense_percent, slant_degrees)) IN
         IF fails = "sidebearings" THEN [ok |-> FALSE, layer |-> transformed]
         ELSE [ok |-> TRUE,
               layer |-> SetRSB(SetLSB(transformed, ScaleBy(original_lsb, sidebearing_percent)),
                                ScaleBy(original_rsb, sidebearing_percent))]

\* get_selected_glyphs(): the glyphs (by position) of the selected layers
\* that have a parent
get_selected_glyphs(gl, sel) == { i \in DOMAIN gl : gl[i].gid \in sel }

\* what the three text fields of one row can hold
Fields(condense, slant, sidebearing) ==
    [condense |-> condense, slant |-> slant, sidebearing |-> sidebearing]

FieldTexts ==
    { Fields(<< 50 >>, << 0 >>, << 100 >>), Fields(<< 100 >>, << 0 >>, << 100 >>),
      Fields(<< 100 >>, << 45 >>, << 100 >>), Fields(<< 50 >>, << 45 >>, << 50 >>),
      Fields(<< 100 >>, << 0 >>, << 50 >>), Fields(NotANumber, << 0 >>, << 100 >>),
      Fields(<< 0 >>, << 0 >>, << 100 >>), Fields(<< 50 >>, << 0 >>, << 0 - 50 >>) }

\* the try block that parses and validates one row of fields: the text of
\* the ValueError it raises, None when it raises nothing
ParseFields(fields) ==
    IF NotANumber \in { fields.condense, fields.slant, fields.sidebearing }
        THEN "could not convert string to float"
    ELSE IF fields.condense[1] <= 0 THEN "Condense percentage must be greater than 0"
    ELSE IF fields.sidebearing[1] < 0 THEN "Sidebearing percentage cannot be negative"
    ELSE None

NoFailure(targets) == [t \in targets |-> "no"]

\* where the host raises during one click: nowhere, in one layer, or in all
Failures(targets) ==
    { NoFailure(targets) }
        \cup { [t \in targets |-> IF t = bad THEN kind ELSE "no"] :
                 bad \in targets, kind \in { "shapes", "sidebearings" } }
        \cup { [t \in targets |-> kind] : kind \in { "shapes", "sidebearings" } }

\* the call of transform_layer on the layer of glyph i in master m
TransformOne(gl, i, m, settings, failing) ==
    transform_layer(gl[i].layers[m], settings[m].condense[1], settings[m].slant[1],
                    settings[m].sidebearing[1], failing[<< i, m >>])

\* variant: a layer that fails ends the loop over the remaining layers
\* (targets are taken in increasing order)
TransformLoopAborting(gl, targets, settings, failing) ==
    LET reached == { t \in targets :
                       \A u \in targets :
                           (u[1] < t[1] \/ (u[1] = t[1] /\ u[2] < t[2]))
                               => failing[u] = "no" }
        done == { t \in reached : TransformOne(gl, t[1], t[2], settings, failing).ok } IN
    [glyphs |-> [i \in DOMAIN gl |->
                    [gl[i] EXCEPT !.layers =
                        [m \in DOMAIN @ |->
                            IF << i, m >> \in reached
                                THEN TransformOne(gl, i, m, settings, failing).layer
                            ELSE @[m]]]],
     total_layers |-> Cardinality(done),
     errors |-> Cardinality(reached \ done)]

\* the loop "for glyph in self.selected_glyphs" of transform(): every layer
\* in targets goes through transform_layer, successes and failures are counted
TransformLoop(gl, targets, settings, failing) ==
    LET done == { t \in targets : TransformOne(gl, t[1], t[2], settings, failing).ok } IN
    [glyphs |-> [i \in DOMAIN gl |->
                    [gl[i] EXCEPT !.layers =
                        [m \in DOMAIN @ |->
                            IF << i, m >> \in targets
                                THEN TransformOne(gl, i, m, settings, failing).layer
                            ELSE @[m]]]],
     total_layers |-> Cardinality(done),
     errors |-> Cardinality(targets \ done)]

\* the end of transform(): results shown, window closed after a success
TransformClick(allMasters, selected_glyphs, error, targets, settings, failing) ==
    /\ clicks' = clicks + 1
    /\ UNCHANGED << current_master, target_color_obj >>
    /\ IF selected_glyphs = {}
           THEN /\ failing = NoFailure(targets)
                /\ call' = [op |-> "transform",
                            arg |-> << allMasters, targets, settings, failing >>,
                            result |-> << 0, 0, "Error: No glyphs selected" >>]
                /\ UNCHANGED << glyphs, alerts, dialog, pc >>
       ELSE IF error # None
           THEN /\ failing = NoFailure(targets)
                /\ call' = [op |-> "transform",
                            arg |-> << allMasters, targets, settings, failing >>,
                            result |-> << 0, 0, "Error: " \o error >>]
                /\ UNCHANGED << glyphs, alerts, dialog, pc >>
       ELSE LET r == TransformLoop(glyphs, targets, settings, failing) IN
            /\ glyphs' = r.glyphs
            /\ call' = [op |-> "transform",
                        arg |-> << allMasters, targets, settings, failing >>,
                        result |-> << r.total_layers, r.errors,
                                      IF r.total_layers > 0 THEN ""
                                      ELSE "No layers were transformed" >>]
            /\ IF r.total_layers > 0
                   THEN /\ Message("Success")
                        /\ dialog' = "none"
                        /\ pc' = "done"
               ELSE UNCHANGED << alerts, dialog, pc >>
    /\ UNCHANGED << envVars, nextGid, idx, afiiVars, nvVars, amVars, earlier >>

\* variant: "Apply to all masters" is ignored, every master is transformed
ItalicizeTransformAllMasters ==
    /\ script = "italicize"
    /\ pc = "dialog"
    /\ clicks < MaxClicks
    /\ \E fields \in FieldTexts, allMasters \in BOOLEAN :
         LET selected_glyphs == get_selected_glyphs(glyphs, selected)
             targets == selected_glyphs \X masters IN
         \E failing \in Failures(targets) :
             TransformClick(allMasters, selected_glyphs, ParseFields(fields), targets,
                            [m \in masters |-> fields], failing)

\* Italicize - (Condense & Slant).py: TransformDialog.transform
ItalicizeTransform ==
    /\ script = "italicize"
    /\ pc = "dialog"
    /\ clicks < MaxClicks
    /\ \E fields \in FieldTexts, allMasters \in BOOLEAN :
         LET selected_glyphs == get_selected_glyphs(glyphs, selected)
             targets == selected_glyphs \X (IF allMasters THEN masters ELSE { current_master }) IN
         \E failing \in Failures(targets) :
             TransformClick(allMasters, selected_glyphs, ParseFields(fields), targets,
                            [m \in masters |-> fields], failing)

\* the rows "Different values per master" can hold
MasterFieldTexts ==
    { Fields(<< 50 >>, << 0 >>, << 100 >>), Fields(<< 100 >>, << 45 >>, << 50 >>),
      Fields(<< 0 >>, << 0 >>, << 100 >>) }

\* the first ValueError of the per-master rows, in the order of the masters
FirstError(master_fields) ==
    LET bad == { m \in DOMAIN master_fields : ParseFields(master_fields[m]) # None } IN
    IF bad = {} THEN None ELSE ParseFields(master_fields[Min(bad)])

\* Italicize Each Master - (Condense & Slant).py: TransformDialog.transform
ItalicizeEachTransform ==
    /\ script = "italicizeEach"
    /\ pc = "dialog"
    /\ clicks < MaxClicks
    /\ \E mode \in { 0, 1 } :
        \E master_fields \in IF mode = 0 THEN { [m \in masters |-> f] : f \in FieldTexts }
                             ELSE [masters -> MasterFieldTexts] :
         LET selected_glyphs == get_selected_glyphs(glyphs, selected)
             targets == selected_glyphs \X masters IN
         \E failing \in Failures(targets) :
             TransformClick(TRUE, selected_glyphs, FirstError(master_fields), targets,
                            master_fields, failing)

\* TransformDialog.cancel, in both scripts
ItalicizeCancel ==
    /\ script \in { "italicize", "italicizeEach" }
    /\ pc = "dialog"
    /\ dialog' = "none"
    /\ pc' = "done"
    /\ UNCHANGED << envVars, dlgVars, glyphs, nextGid, idx, alerts, batchVars >>

----------------------------------------------------------------------------
(* Selectively copy side bearings of selected glyphs to other masters.py *)

\* the body of "for target_master in target_masters" on one target layer
CopyToLayer(source_layer, target_layer, copy_left, copy_right, copy_width) ==
    IF copy_width THEN SetWidth(target_layer, source_layer.width)
    ELSE LET left == IF copy_left THEN SetLSB(target_layer, LSB(source_layer))
                     ELSE target_layer IN
         IF copy_right THEN SetRSB(left, RSB(source_layer)) ELSE left

\* variant: the source master is among the targets whatever is checked
CopyLoopWithSource(gl, selected_glyphs, source_master, target_masters, copy_left, copy_right, copy_width) ==
    [glyphs |-> [i \in DOMAIN gl |->
                    [gl[i] EXCEPT !.layers =
                        [m \in DOMAIN @ |->
                            IF i \in selected_glyphs
                                THEN CopyToLayer(gl[i].layers[source_master], @[m],
                                                 TRUE, TRUE, TRUE)
                            ELSE @[m]]]],
     total_changes |-> Cardinality(selected_glyphs \X target_masters)]

\* the loop "for glyph in self.selected_glyphs" of copy_sidebearings()
CopyLoop(gl, selected_glyphs, source_master, target_masters, copy_left, copy_right, copy_width) ==
    [glyphs |-> [i \in DOMAIN gl |->
                    [gl[i] EXCEPT !.layers =
                        [m \in DOMAIN @ |->
                            IF i \in selected_glyphs /\ m \in target_masters
                                THEN CopyToLayer(gl[i].layers[source_master], @[m],
                                                 copy_left, copy_right, copy_width)
                            ELSE @[m]]]],
     total_changes |-> Cardinality(selected_glyphs \X target_masters)]

\* CopySidebearingsDialog.copy_sidebearings; the dialog has a checkbox for
\* every master but the source master
copy_sidebearings ==
    /\ script = "sidebearings"
    /\ pc = "dialog"
    /\ \E target_masters \in SUBSET (masters \ { current_master }),
          copy_left \in BOOLEAN, copy_right \in BOOLEAN, copy_width \in BOOLEAN :
         LET selected_glyphs == get_selected_glyphs(glyphs, selected)
             arg == << target_masters, copy_left, copy_right, copy_width >>
             info == IF selected_glyphs = {} THEN "Error: No glyphs selected"
                     ELSE IF target_masters = {}
                         THEN "Error: Please select at least one target master"
                     ELSE IF ~copy_left /\ ~copy_right /\ ~copy_width
                         THEN "Error: Please select at least one option (LSB/RSB/Width)"
                     ELSE None IN
         IF info # None
             THEN /\ call' = [op |-> "copy_sidebearings", arg |-> arg,
                              result |-> << 0, info >>]
                  /\ UNCHANGED << glyphs, alerts, dialog, pc >>
         ELSE LET r == CopyLoop(glyphs, selected_glyphs, current_master, target_masters,
                                copy_left, copy_right, copy_width) IN
              /\ glyphs' = r.glyphs
              /\ IF r.total_changes > 0
                     THEN /\ call' = [op |-> "copy_sidebearings", arg |-> arg,
                                      result |-> << r.total_changes, "" >>]
                          /\ Message("Success")
                          /\ dialog' = "none"
                          /\ pc' = "done"
                 ELSE /\ call' = [op |-> "copy_sidebearings", arg |-> arg,
                                  result |-> << 0, "No changes were made" >>]
                      /\ UNCHANGED << alerts, dialog, pc >>
    /\ UNCHANGED << envVars, dlgVars, nextGid, idx, afiiVars, nvVars, amVars, earlier >>

\* CopySidebearingsDialog.cancel
SidebearingsCancel ==
    /\ script = "sidebearings"
    /\ pc = "dialog"
    /\ dialog' = "none"
    /\ pc' = "done"
    /\ UNCHANGED << envVars, dlgVars, glyphs, nextGid, idx, alerts, batchVars >>

\* Recolor Glyph Parts.py: the dialog

\* rgb_to_nscolor(r, g, b): the colour object with components r/255, g/255, b/255
rgb_to_nscolor(r, g, b) ==
    CHOOSE c \in DOMAIN CalibratedRGB : CalibratedRGB[c] = << 10 * r, 10 * g, 10 * b >>

Abs(x) == IF x < 0 THEN 0 - x ELSE x

\* colors_match_exact: every component within the tolerance 0.002, which is
\* 5.1 units of 1/2550; False when a component call raises
colors_match_exact(color1_obj, color2_obj) ==
    IF color1_obj = None \/ color2_obj = None THEN FALSE
    ELSE IF color1_obj \notin DOMAIN CalibratedRGB \/ color2_obj \notin DOMAIN CalibratedRGB
        THEN FALSE
    ELSE \A k \in 1..3 :
            10 * Abs(CalibratedRGB[color1_obj][k] - CalibratedRGB[color2_obj][k]) < 51

\* recolor_shape without the comparison with the target colour
recolor_any_shape(shape, target, new_color_obj, raises) ==
    IF ~Truthy(shape.fillColor) THEN [shape |-> shape, recolored |-> FALSE]
    ELSE IF raises THEN [shape |-> shape, recolored |-> FALSE]
    ELSE [shape |-> [shape EXCEPT !.fillColor = new_color_obj], recolored |-> TRUE]

\* recolor_shape(shape, target_color_obj, new_color_obj): the shape afterwards
\* and the value returned; raises: the assignment of the attribute raises
recolor_shape(shape, target, new_color_obj, raises) ==
    IF ~Truthy(shape.fillColor) THEN [shape |-> shape, recolored |-> FALSE]
    ELSE IF colors_match_exact(shape.fillColor, target)
        THEN IF raises THEN [shape |-> shape, recolored |-> FALSE]
             ELSE [shape |-> [shape EXCEPT !.fillColor = new_color_obj],
                   recolored |-> TRUE]
    ELSE [shape |-> shape, recolored |-> FALSE]

\* one of the two loops of recolor_layer
RecolorShapes(shapes, target, new_color_obj, raises) ==
    LET r == [k \in DOMAIN shapes |-> recolor_shape(shapes[k], target, new_color_obj, raises)] IN
    [shapes |-> [k \in DOMAIN shapes |-> r[k].shape],
     changes |-> Cardinality({ k \in DOMAIN shapes : r[k].recolored })]

\* recolor_layer: the paths, then the components
recolor_layer(layer, target, new_color_obj, raises) ==
    LET p == RecolorShapes(layer.paths, target, new_color_obj, raises)
        c == RecolorShapes(layer.components, target, new_color_obj, raises) IN
    [layer |-> [layer EXCEPT !.paths = p.shapes, !.components = c.shapes],
     changes |-> p.changes + c.changes]

RECURSIVE Sum(_, _)
Sum(f, S) == IF S = {} THEN 0 ELSE LET x == CHOOSE y \in S : TRUE IN f[x] + Sum(f, S \ { x })

\* the loop of recolor over the glyphs to process and the masters; raising:
\* the layers in which the assignment of a fillColor raises
RecolorLoop(gl, glyphs_to_process, ms, target, new_color_obj, raising) ==
    LET r == [t \in glyphs_to_process \X ms |->
                 recolor_layer(gl[t[1]].layers[t[2]], target, new_color_obj,
                               t \in raising)]
        glyph_changes == [i \in glyphs_to_process |->
                             Sum([m \in ms |-> r[<< i, m >>].changes], ms)] IN
    [glyphs |-> [i \in DOMAIN gl |->
                    IF i \in glyphs_to_process
                        THEN [gl[i] EXCEPT !.layers = [m \in ms |-> r[<< i, m >>].layer]]
                    ELSE gl[i]],
     total_changes |-> Sum(glyph_changes, glyphs_to_process),
     glyphs_changed |-> Cardinality({ i \in glyphs_to_process : glyph_changes[i] > 0 })]

\* what the three fields newR, newG, newB can hold
RGBTexts ==
    { << << 0 >>, << 0 >>, << 255 >> >>, << << 255 >>, << 0 >>, << 0 >> >>,
      << << 0 >>, << 0 >>, << 256 >> >>, << NotANumber, << 0 >>, << 255 >> >> }

\* parse_rgb: the text of the ValueError it raises, None when it raises nothing
parse_rgb(fields) ==
    IF \E k \in 1..3 : fields[k] = NotANumber
        THEN "Invalid RGB values: invalid literal for int()"
    ELSE IF \E k \in 1..3 : fields[k][1] < 0 \/ fields[k][1] > 255
        THEN "Invalid RGB values: RGB values must be between 0-255"
    ELSE None

\* where the host raises during one click: nowhere, in one layer, or in all
Raising(layers) == { {}, layers } \cup { { t } : t \in layers }

\* RecolorDialog.recolor (self.font is the font main() found open)
recolor ==
    /\ script = "recolor"
    /\ pc = "dialog"
    /\ \E fields \in RGBTexts, allGlyphs \in BOOLEAN,
          raising \in Raising((DOMAIN glyphs) \X masters) :
         LET error == parse_rgb(fields)
             glyphs_to_process == IF allGlyphs THEN DOMAIN glyphs
                                  ELSE get_selected_glyphs(glyphs, selected)
             arg == << fields, allGlyphs, raising >> IN
         IF error # None
             THEN /\ call' = [op |-> "recolor", arg |-> arg,
                              result |-> << 0, 0, "Error: " \o error >>]
                  /\ UNCHANGED << glyphs, alerts, dialog, pc >>
         ELSE IF glyphs_to_process = {}
             THEN /\ call' = [op |-> "recolor", arg |-> arg,
                              result |-> << 0, 0, "Error: No glyphs to process" >>]
                  /\ UNCHANGED << glyphs, alerts, dialog, pc >>
         ELSE LET new_color_obj == rgb_to_nscolor(fields[1][1], fields[2][1], fields[3][1])
                  r == RecolorLoop(glyphs, glyphs_to_process, masters, target_color_obj,
                                   new_color_obj, raising) IN
              /\ glyphs' = r.glyphs
              /\ IF r.total_changes > 0
                     THEN /\ call' = [op |-> "recolor", arg |-> arg,
                                      result |-> << r.total_changes, r.glyphs_changed, "" >>]
                          /\ Message("Success")
                          /\ dialog' = "none"
                          /\ pc' = "done"
                 ELSE /\ call' = [op |-> "recolor", arg |-> arg,
                                  result |-> << 0, 0, "No matching shapes found" >>]
                      /\ UNCHANGED << alerts, dialog, pc >>
    /\ UNCHANGED << envVars, dlgVars, nextGid, idx, afiiVars, nvVars, amVars, earlier >>

\* RecolorDialog.cancel
RecolorCancel ==
    /\ script = "recolor"
    /\ pc = "dialog"
    /\ dialog' = "none"
    /\ pc' = "done"
    /\ UNCHANGED << envVars, dlgVars, glyphs, nextGid, idx, alerts, batchVars >>

----------------------------------------------------------------------------
(* Initial states and specifications *)

\* the variables of the scripts, before any has run
ScriptsAtRest ==
    /\ idx = 0
    /\ alerts = <<>>
    /\ dialog = "none"
    /\ afii_glyphs = <<>>
    /\ renamed_count = 0
    /\ failed_count = 0
    /\ outcomes = <<>>
    /\ created_count = 0
    /\ skipped_count = 0
    /\ missing_glyphs_sorted = <<>>
    /\ glyph_data = <<>>
    /\ added_count = 0
    /\ failed_glyphs = <<>>
    /\ call = NoCall
    /\ earlier = NoCall
    /\ current_master = 0
    /\ clicks = 0
    /\ target_color_obj = None

\* names of the glyphs and rename targets of the library-call specification
CallNames == {"afii10017", "afii57639", "A-cy", "uni0410"}

\* identifiers resolved in the library-call specification
CallIdents == {"afii10017", "afii57639", "afii10018", "afii99999", "unrelated"}

CallAuthorities ==
    { a \in Authorities :
        /\ a.rest = "uni"
        /\ a.special["03C5"] \in {Throws, Info("A-cy"), Info("upsilon")}
        /\ a.special["0410"] \in {Throws, NoInfo, Info("A-cy"), Info("uni0410")} }

\* every identifier of the table, and names that are not in it
NonKeys == {"afii99999", "unrelated", "", "afii", "Afii10017", "uni0410", "xafii10017"}

AllIdents == DOMAIN AFII_TABLE \cup NonKeys

InitCalls ==
    /\ AFII_TO_UNICODE = AFII_TABLE
    /\ authority \in CallAuthorities
    /\ FONTTOOLS_AVAILABLE = TRUE
    /\ DEFCON_AVAILABLE = TRUE
    /\ script = "afii"
    /\ fontOpen = TRUE
    /\ masters = {1}
    /\ glyphs \in FontsOver(CallNames, MaxGlyphs, {1})
    /\ font0 = <<>>
    /\ selected = {}
    /\ nextGid = Len(glyphs) + 1
    /\ pc = "idle"
    /\ ScriptsAtRest

NextCalls ==
    \/ \E n \in CallIdents : ResolveCall(n)
    \/ \E n \in CallIdents : ResolveAndRemember(n)
    \/ \E o \in CallNames, n \in CallNames, raises \in BOOLEAN : RenameCall(o, n, raises)

SpecCalls == InitCalls /\ [][NextCalls]_vars

InitResolve ==
    /\ AFII_TO_UNICODE = AFII_TABLE
    /\ authority \in Authorities
    /\ FONTTOOLS_AVAILABLE = TRUE
    /\ DEFCON_AVAILABLE = TRUE
    /\ script = "afii"
    /\ fontOpen = TRUE
    /\ masters = {1}
    /\ glyphs = << GSGlyph(1, "afii10017", {1}) >>
    /\ font0 = glyphs
    /\ selected = {}
    /\ nextGid = 2
    /\ pc = "idle"
    /\ ScriptsAtRest

\* one resolution per input drawn by InitResolve
NextResolve == \E n \in AllIdents : call = NoCall /\ ResolveCall(n)

SpecResolve == InitResolve /\ [][NextResolve]_vars

MainNames == {"afii10017", "afii57639", "afii99999", "unrelated", "A-cy"}

MainAuthorities ==
    { a \in Authorities :
        /\ a.rest = "throws"
        /\ a.special["0410"] \in {Throws, Info("A-cy")}
        /\ a.special["03C5"] \in {Throws, Info("A-cy"), Info("upsilon")} }

InitAFII ==
    /\ AFII_TO_UNICODE = AFII_TABLE
    /\ authority \in MainAuthorities
    /\ FONTTOOLS_AVAILABLE = TRUE
    /\ DEFCON_AVAILABLE = TRUE
    /\ script = "afii"
    /\ fontOpen \in BOOLEAN
    /\ masters = {1}
    /\ glyphs \in IF fontOpen THEN FontsOver(MainNames, MaxGlyphs, {1}) ELSE { <<>> }
    /\ font0 = glyphs
    /\ selected \in SUBSET (Gids(glyphs) \cup {0})
    /\ (~fontOpen => selected = {})
    /\ nextGid = Len(glyphs) + 1
    /\ pc = "start"
    /\ ScriptsAtRest

NextAFII ==
    \/ AFIIMain
    \/ \E result \in {0, 1} : AFIIConfirm(result)
    \/ \E raises \in BOOLEAN : AFIIRename(raises)

SpecAFII == InitAFII /\ [][NextAFII]_vars

\* the scripts that create glyphs: Create Number Variants, Add Missing Glyphs

NVFontNames == <<"zero", "one", "zero.lf", "one.lf", "zero.tf">>

\* a drawn digit glyph: one path, no components, a width of its own in each
\* master
NumberGlyph(gid, name, ms) ==
    [GSGlyph(gid, name, ms) EXCEPT
        !.category = "Number",
        !.subCategory = "Decimal Digit",
        !.layers = [m \in ms |->
                      Layer(400 + 100 * m + Len(name), << GSPath(None) >>, <<>>)]]

NumberFonts(ms) ==
    { LET In(n) == n \in S
          names == SelectSeq(NVFontNames, In) IN
      [i \in DOMAIN names |-> NumberGlyph(i, names[i], ms)] :
        S \in SUBSET Range(NVFontNames) }

AMFontNames == {"A", "b"}

AMSourceGlyphs ==
    { SourceGlyph("A", <<65>>, "Letter", "Uppercase", "latin"),
      SourceGlyph("a", <<97>>, "Letter", "Lowercase", "latin"),
      SourceGlyph("B", <<>>, None, None, None) }

RECURSIVE SeqsUpTo(_, _)
SeqsUpTo(S, n) ==
    IF n = 0 THEN { <<>> }
    ELSE LET smaller == SeqsUpTo(S, n - 1) IN
         smaller \cup { Append(q, x) : <<q, x>> \in { p \in smaller \X S : Len(p[1]) = n - 1 } }

SourceFiles ==
    { SourceFile(ext, isdir, corrupt, font) :
        <<ext, isdir, corrupt, font>> \in
            ({".glyphs", ".otf", ".txt"} \X {FALSE} \X BOOLEAN \X SeqsUpTo(AMSourceGlyphs, MaxSource))
            \cup ({".UFO", ".txt"} \X {TRUE} \X BOOLEAN \X SeqsUpTo(AMSourceGlyphs, MaxSource)) }

InitGlyphSets ==
    /\ AFII_TO_UNICODE = AFII_TABLE
    /\ authority = [special |-> [u \in AuthCPs |-> Throws], rest |-> "throws"]
    /\ script \in {"numbers", "addmissing"}
    /\ FONTTOOLS_AVAILABLE \in IF script = "addmissing" THEN BOOLEAN ELSE {TRUE}
    /\ DEFCON_AVAILABLE \in IF script = "addmissing" THEN BOOLEAN ELSE {TRUE}
    /\ fontOpen \in BOOLEAN
    /\ masters = 1..MaxMasters
    /\ glyphs \in IF ~fontOpen THEN { <<>> }
                  ELSE IF script = "numbers" THEN NumberFonts(masters)
                  ELSE FontsOver(AMFontNames, MaxGlyphs, masters)
    /\ font0 = glyphs
    /\ selected = {}
    /\ nextGid = Len(glyphs) + 1
    /\ pc = "start"
    /\ ScriptsAtRest

NextGlyphSets ==
    \/ NVInit
    \/ cancelCallback
    \/ \E checks \in SUBSET {"lf", "tf"}, ss01 \in BOOLEAN, ss01Text \in {"ss01", " lf", ".tf", "."},
          overwrite \in BOOLEAN :
           generateCallback(checks, ss01, ss01Text, FALSE, "ss02", overwrite)
    \/ AMMain
    \/ AMCancelPick
    \/ \E src \in SourceFiles : AMPick(src)
    \/ \E result \in {0, 1} : AMConfirm(result)
    \/ \E raises \in BOOLEAN : AMAdd(raises)

SpecGlyphSets == InitGlyphSets /\ [][NextGlyphSets]_vars

\* every script, at the menu click

Scripts ==
    {"afii", "addmissing", "numbers", "widths", "sidebearings", "italicize",
     "italicizeEach", "recolor", "colorglyphs"}

PreNames == <<"afii10017", "one", "A", "zero">>

\* what a glyph holds in each of its layers
ShapeKinds == {"empty", "paths", "components", "both"}

PreGlyph(gid, kind, color, ms) ==
    [GSGlyph(gid, PreNames[gid], ms) EXCEPT
        !.color = color,
        !.layers = [m \in ms |->
                      Layer(500 + 10 * m,
                            IF kind = "paths" THEN << GSPath("red") >>
                            ELSE IF kind = "both" THEN << GSPath(None) >>
                            ELSE <<>>,
                            IF kind = "components" THEN << GSComponent("one") >>
                            ELSE IF kind = "both"
                                THEN << [GSComponent("one") EXCEPT !.fillColor = "red"] >>
                            ELSE <<>>)]]

PreFonts(ms) ==
    { [i \in 1..Len(kinds) |-> PreGlyph(i, kinds[i], color, ms)] :
        <<kinds, color>> \in SeqsUpTo(ShapeKinds, MaxPreGlyphs) \X { <<>>, << YELLOW >> } }

InitPre ==
    /\ AFII_TO_UNICODE = AFII_TABLE
    /\ authority = [special |-> [u \in AuthCPs |-> Throws], rest |-> "throws"]
    /\ FONTTOOLS_AVAILABLE = TRUE
    /\ DEFCON_AVAILABLE = TRUE
    /\ script \in Scripts
    /\ fontOpen \in BOOLEAN
    /\ masters \in IF fontOpen THEN { 1..k : k \in 1..MaxMasters } ELSE { {} }
    /\ glyphs \in IF fontOpen THEN PreFonts(masters) ELSE { <<>> }
    /\ font0 = glyphs
    /\ selected \in IF fontOpen THEN SUBSET (Gids(glyphs) \cup {0}) ELSE { {} }
    /\ nextGid = Len(glyphs) + 1
    /\ pc = "start"
    /\ ScriptsAtRest

NextPre ==
    \/ AFIIMain
    \/ AMMain
    \/ NVInit
    \/ CopyWidthsMain
    \/ SidebearingsMain
    \/ ItalicizeMain
    \/ ItalicizeEachMain
    \/ RecolorMain
    \/ color_glyphs

SpecPre == InitPre /\ [][NextPre]_vars

\* Copy Widths from Source Font, on a font with a selection

\* name and Unicode value of the glyphs a current font is drawn from
WidthTargets == { <<"A", "0042">>, <<"Bee", "0042">>, <<"C", None>>, <<"Dee", "0044">> }

WidthTarget(gid, nu, ms) ==
    [GSGlyph(gid, nu[1], ms) EXCEPT
        !.unicode = nu[2],
        !.layers = [m \in ms |-> Layer(500 + 10 * m + gid, << GSPath(None) >>, <<>>)]]

RECURSIVE WidthFonts(_, _)
WidthFonts(n, ms) ==
    IF n = 0 THEN { <<>> }
    ELSE LET smaller == WidthFonts(n - 1, ms) IN
         smaller \cup
         { Append(gl, WidthTarget(Len(gl) + 1, nu, ms)) :
             <<gl, nu>> \in { p \in smaller \X WidthTargets :
                                 /\ Len(p[1]) = n - 1
                                 /\ p[2][1] \notin GlyphNames(p[1]) } }

WidthSourceGlyphs ==
    { WidthGlyph("A", <<65>>, 700), WidthGlyph("B", <<66>>, 800),
      WidthGlyph("X", <<67, 68>>, 900) }

\* source fonts: glyph names are unique in each format
WidthSourceFonts ==
    { f \in SeqsUpTo(WidthSourceGlyphs, MaxSource) :
        \A i, j \in DOMAIN f : f[i].name = f[j].name => i = j }

WidthSourceFiles ==
    { SourceFile(ext, isdir, corrupt, font) :
        <<ext, isdir, corrupt, font>> \in
            ({".glyphs", ".ttf", ".TXT"} \X {FALSE} \X BOOLEAN \X WidthSourceFonts)
            \cup ({".ufo", ".txt"} \X {TRUE} \X BOOLEAN \X WidthSourceFonts) }

InitWidths ==
    /\ AFII_TO_UNICODE = AFII_TABLE
    /\ authority = [special |-> [u \in AuthCPs |-> Throws], rest |-> "throws"]
    /\ FONTTOOLS_AVAILABLE \in BOOLEAN
    /\ DEFCON_AVAILABLE \in BOOLEAN
    /\ script = "widths"
    /\ fontOpen = TRUE
    /\ masters = 1..MaxMasters
    /\ glyphs \in WidthFonts(MaxPreGlyphs, masters)
    /\ font0 = glyphs
    /\ selected \in SUBSET Gids(glyphs)
    /\ nextGid = Len(glyphs) + 1
    /\ pc = "start"
    /\ ScriptsAtRest

NextWidths ==
    \/ CopyWidthsMain
    \/ CopyWidthsCancel
    \/ \E src \in WidthSourceFiles : CopyWidthsPick(src)

SpecWidths == InitWidths /\ [][NextWidths]_vars

\* the two scripts that read a source font

InitSources ==
    \/ InitGlyphSets /\ script = "addmissing" /\ fontOpen
    \/ InitWidths

NextSources ==
    \/ AMMain
    \/ AMCancelPick
    \/ \E src \in SourceFiles : AMPick(src)
    \/ \E result \in {0, 1} : AMConfirm(result)
    \/ \E raises \in BOOLEAN : AMAdd(raises)
    \/ CopyWidthsMain
    \/ CopyWidthsCancel
    \/ \E src \in WidthSourceFiles : CopyWidthsPick(src)

SpecSources == InitSources /\ [][NextSources]_vars

\* The three dialogs that edit layer metrics, on fonts with drawn layers

\* horizontal unit of the drawn layers: every scaling used divides it
Unit == 1600

\* the layer of glyph gid in master m: LSB Unit * (gid + m), RSB Unit * m
DrawnLayer(gid, m) ==
    InkLayer(Unit * (gid + m) + 2 * Unit + Unit * m,
             << Unit * (gid + m), Unit * (gid + m) + 2 * Unit, 0, Unit >>,
             << GSPath(None) >>, <<>>)

DrawnFonts(ms) ==
    { [i \in 1..n |-> [GSGlyph(i, PreNames[i], ms) EXCEPT
                           !.layers = [m \in ms |-> DrawnLayer(i, m)]]] :
        n \in 1..MaxPreGlyphs }

InitDialogs ==
    /\ AFII_TO_UNICODE = AFII_TABLE
    /\ authority = [special |-> [u \in AuthCPs |-> Throws], rest |-> "throws"]
    /\ FONTTOOLS_AVAILABLE = TRUE
    /\ DEFCON_AVAILABLE = TRUE
    /\ script \in { "sidebearings", "italicize", "italicizeEach" }
    /\ fontOpen = TRUE
    /\ masters = 1..(MaxMasters + 1)
    /\ glyphs \in DrawnFonts(masters)
    /\ font0 = glyphs
    /\ selected \in SUBSET (Gids(glyphs) \cup {0})
    /\ nextGid = Len(glyphs) + 1
    /\ pc = "start"
    /\ ScriptsAtRest

\* the sidebearing-copy dialog
InitSidebearings == InitDialogs /\ script = "sidebearings"

NextSidebearings ==
    \/ SidebearingsMain
    \/ copy_sidebearings
    \/ SidebearingsCancel

SpecSidebearings == InitSidebearings /\ [][NextSidebearings]_vars

\* the two Italicize dialogs
InitItalicize == InitDialogs /\ script \in { "italicize", "italicizeEach" }

NextItalicize ==
    \/ ItalicizeMain
    \/ ItalicizeTransform
    \/ ItalicizeEachMain
    \/ ItalicizeEachTransform
    \/ ItalicizeCancel

SpecItalicize == InitItalicize /\ [][NextItalicize]_vars

\* The three batch loops: renaming, adding, transforming

InitBatches ==
    \/ InitAFII
    \/ InitGlyphSets /\ script = "addmissing" /\ fontOpen
    \/ InitDialogs /\ script = "italicize"

NextBatches ==
    \/ AFIIMain
    \/ \E result \in {0, 1} : AFIIConfirm(result)
    \/ \E raises \in BOOLEAN : AFIIRename(raises)
    \/ AMMain
    \/ AMCancelPick
    \/ \E src \in SourceFiles : AMPick(src)
    \/ \E result \in {0, 1} : AMConfirm(result)
    \/ \E raises \in BOOLEAN : AMAdd(raises)
    \/ ItalicizeMain
    \/ ItalicizeTransform
    \/ ItalicizeCancel

SpecBatches == InitBatches /\ [][NextBatches]_vars

\* Color Glyphs by Content Type, on fonts whose layers differ in content

\* a glyph whose layer in master m holds kinds[m]
ContentGlyph(gid, kinds, color, ms) ==
    [GSGlyph(gid, PreNames[gid], ms) EXCEPT
        !.color = color,
        !.layers = [m \in ms |->
                      Layer(500 + 10 * m,
                            IF kinds[m] \in { "paths", "both" } THEN << GSPath(None) >>
                            ELSE <<>>,
                            IF kinds[m] \in { "components", "both" }
                                THEN << GSComponent("one") >>
                            ELSE <<>>)]]

\* what the layers of one glyph hold: the same in every master, or one
\* master that differs from the others
LayerKinds(ms) ==
    { [m \in ms |-> IF m = odd THEN k1 ELSE k2] :
        odd \in ms, k1 \in ShapeKinds, k2 \in ShapeKinds }

ContentFonts(ms) ==
    { [i \in 1..Len(kinds) |-> ContentGlyph(i, kinds[i], color, ms)] :
        << kinds, color >> \in SeqsUpTo(LayerKinds(ms), MaxPreGlyphs)
                                  \X { <<>>, << YELLOW >>, << GREEN >> } }

InitColor ==
    /\ AFII_TO_UNICODE = AFII_TABLE
    /\ authority = [special |-> [u \in AuthCPs |-> Throws], rest |-> "throws"]
    /\ FONTTOOLS_AVAILABLE = TRUE
    /\ DEFCON_AVAILABLE = TRUE
    /\ script = "colorglyphs"
    /\ fontOpen \in BOOLEAN
    /\ masters \in IF fontOpen THEN { 1..MaxMasters } ELSE { {} }
    /\ glyphs \in IF fontOpen THEN ContentFonts(masters) ELSE { <<>> }
    /\ font0 = glyphs
    /\ selected \in { {}, Gids(glyphs) }
    /\ nextGid = Len(glyphs) + 1
    /\ pc = "start"
    /\ ScriptsAtRest

NextColor == color_glyphs

SpecColor == InitColor /\ [][NextColor]_vars

\* Recolor Glyph Parts, on fonts with coloured paths and components

\* the paths and the components a layer can hold; "pattern" is a fill colour
\* without calibrated components
Palettes ==
    << << << GSPath("red"), GSPath("blue") >>, <<>> >>,
       << << GSPath(None) >>, << [GSComponent("one") EXCEPT !.fillColor = "nearRed"] >> >>,
       << << GSPath("blue") >>,
          << [GSComponent("one") EXCEPT !.fillColor = "red"], GSComponent("one") >> >>,
       << << GSPath("pattern"), GSPath("black") >>, <<>> >> >>

\* a glyph whose layers hold the palettes that follow palette k, one for
\* each master
ColoredGlyph(gid, k, ms) ==
    [GSGlyph(gid, PreNames[gid], ms) EXCEPT
        !.layers = [m \in ms |->
                      LET p == Palettes[((k + m) % Len(Palettes)) + 1] IN
                      Layer(500 + 10 * m, p[1], p[2])]]

ColoredFonts(ms) ==
    { [i \in 1..Len(ks) |-> ColoredGlyph(i, ks[i], ms)] :
        ks \in SeqsUpTo(1..Len(Palettes), MaxPreGlyphs) }

InitRecolor ==
    /\ AFII_TO_UNICODE = AFII_TABLE
    /\ authority = [special |-> [u \in AuthCPs |-> Throws], rest |-> "throws"]
    /\ FONTTOOLS_AVAILABLE = TRUE
    /\ DEFCON_AVAILABLE = TRUE
    /\ script = "recolor"
    /\ fontOpen \in BOOLEAN
    /\ masters \in IF fontOpen THEN { 1..MaxMasters } ELSE { {} }
    /\ glyphs \in IF fontOpen THEN ColoredFonts(masters) ELSE { <<>> }
    /\ font0 = glyphs
    /\ selected \in SUBSET Gids(glyphs)
    /\ nextGid = Len(glyphs) + 1
    /\ pc = "start"
    /\ ScriptsAtRest

NextRecolor ==
    \/ RecolorMain
    \/ recolor
    \/ RecolorCancel

SpecRecolor == InitRecolor /\ [][NextRecolor]_vars

----------------------------------------------------------------------------
(* Properties of rename_glyph and of the resolver *)

DistinctNames(gl) == \A i, j \in DOMAIN gl : gl[i].name = gl[j].name => i = j

\* a fallback-style name: "uni" or "u" followed by hexadecimal digits
IsFallbackStyle(n) ==
    \/ startswith(n, "uni") /\ Len(n) > 3 /\ IsUpperHex(SubSeq(n, 4, Len(n)))
    \/ startswith(n, "u") /\ Len(n) > 1 /\ IsUpperHex(SubSeq(n, 2, Len(n)))

\* the authority has no canonical name for the code point
NoCanonical(u) ==
    LET a == glyphInfoForUnicode(u) IN
    a.kind \in {"throws", "none"} \/ a.name = "" \/ IsFallbackStyle(a.name)

ResolvedKey == call.op = "resolve" /\ call.arg[1] \in DOMAIN AFII_TO_UNICODE

\* C1: rename_glyph never overwrites.  A call whose new name is already the
\* name of a glyph returns False and changes nothing; every call keeps the
\* number and identity of the glyphs; glyph names stay pairwise distinct.
C1_RenameStep ==
    call'.op = "rename" =>
        /\ Len(glyphs') = Len(glyphs)
        /\ \A i \in DOMAIN glyphs : glyphs'[i].gid = glyphs[i].gid
        /\ HasGlyph(glyphs, call'.arg[2]) =>
               call'.result = <<FALSE>> /\ glyphs' = glyphs

C1_NoOverwrite == [](DistinctNames(glyphs)) /\ [][C1_RenameStep]_vars

C1_Witness ==
    /\ call.op = "rename"
    /\ call.arg[1] # call.arg[2]
    /\ HasGlyph(glyphs, call.arg[1])
    /\ HasGlyph(glyphs, call.arg[2])
    /\ call.result = <<FALSE>>

\* C3: for an identifier of the table, a non-empty authority name that is not
\* fallback-style ("uni" or "u" followed by hex digits) is returned as is,
\* tagged 'nice'.
C3_CanonicalUsed ==
    ResolvedKey =>
        LET a == glyphInfoForUnicode(AFII_TO_UNICODE[call.arg[1]]) IN
        (a.kind = "info" /\ a.name # "" /\ ~IsFallbackStyle(a.name))
            => call.result = <<a.name, "nice">>

\* C4: for an identifier of the table with no canonical name available the
\* result is tagged 'uni' and named "uni" followed by the table's code point,
\* which is uppercase hexadecimal of at least 4 digits; afii10017 gives
\* exactly uni0410.
C4_Fallback ==
    ResolvedKey =>
        LET u == AFII_TO_UNICODE[call.arg[1]] IN
        /\ IsUpperHex(u) /\ Len(u) >= 4
        /\ NoCanonical(u) => call.result = <<"uni" \o u, "uni">>
        /\ (NoCanonical(u) /\ call.arg[1] = "afii10017")
               => call.result[1] = "uni0410"

C4_Witness ==
    /\ call.op = "resolve"
    /\ call.arg = <<"afii10017">>
    /\ glyphInfoForUnicode("0410") = NoInfo
    /\ call.result = <<"uni0410", "uni">>

\* C5: when the authority throws for an identifier of the table, the
\* resolver still returns a value, and it is the fallback ('uni') name.
C5_ThrowCaught ==
    (ResolvedKey /\ glyphInfoForUnicode(AFII_TO_UNICODE[call.arg[1]]) = Throws)
        => /\ call.result[2] = "uni"
           /\ call.result[1] = "uni" \o AFII_TO_UNICODE[call.arg[1]]

C5_Witness ==
    /\ call.op = "resolve"
    /\ call.arg = <<"afii57639">>
    /\ glyphInfoForUnicode("03C5") = Throws
    /\ call.result = <<"uni03C5", "uni">>

\* C8: round trip.  For an identifier of the table, the fallback name without
\* its 3-character prefix "uni" is a hex string whose value is the code
\* point of the table.
C8_RoundTrip ==
    (ResolvedKey /\ call.result[2] = "uni") =>
        LET nm == call.result[1]
            suffix == SubSeq(nm, 4, Len(nm)) IN
        /\ startswith(nm, "uni")
        /\ IsUpperHex(suffix)
        /\ HexToInt(suffix) = HexToInt(AFII_TO_UNICODE[call.arg[1]])

C8_Witness ==
    /\ call.op = "resolve"
    /\ call.arg = <<"afii08941">>
    /\ call.result[2] = "uni"
    /\ HexToInt(SubSeq(call.result[1], 4, Len(call.result[1]))) = 8356

\* C7: get_new_name_for_afii is pure.  The table keeps its initial contents
\* in every state, a resolver call changes neither the table nor the font,
\* and an identifier resolved again, in whatever state of the font, gives the
\* result of the earlier resolution.
C7_ResolveStep ==
    call'.op = "resolve" =>
        glyphs' = glyphs /\ AFII_TO_UNICODE' = AFII_TO_UNICODE

C7_SameAgain ==
    /\ AFII_TO_UNICODE = AFII_TABLE
    /\ (call.op = "resolve" /\ earlier.op = "resolve" /\ call.arg = earlier.arg)
           => call.result = earlier.result

C7_Pure == []C7_SameAgain /\ [][C7_ResolveStep]_vars

\* resolved again after the font came to hold a glyph of the resolved name
C7_Witness ==
    /\ call.op = "resolve"
    /\ earlier.op = "resolve"
    /\ call.arg = earlier.arg
    /\ call.arg[1] \in DOMAIN AFII_TO_UNICODE
    /\ call.result[2] = "nice"
    /\ HasGlyph(glyphs, call.result[1])
    /\ ~HasGlyph(glyphs, call.arg[1])

----------------------------------------------------------------------------
(* Properties of main() of the AFII script *)

\* the renaming loop has run to its end
BatchDone == pc = "done" /\ afii_glyphs # <<>> /\ Len(outcomes) = Len(afii_glyphs)

\* the selected names the resolver can resolve
Resolvable == SelectedNames(font0, selected) \cap DOMAIN AFII_TABLE

SameTarget(i, j) == i # j /\ afii_glyphs[i][2] = afii_glyphs[j][2]

\* C2 as stated: of two entries of a batch that resolve to the same target
\* name exactly one is renamed and the other is reported as a conflict, and
\* renamed_count + failed_count is the number of resolvable entries.  (Stated
\* of the batches in which the host's name setter never raises, so that what
\* refutes it is the script's own conflict check.)
C2_ExactlyOne ==
    (BatchDone /\ "failed" \notin Range(outcomes)) =>
        /\ renamed_count + failed_count = Cardinality(Resolvable)
        /\ \A i, j \in DOMAIN afii_glyphs :
               SameTarget(i, j) => {outcomes[i], outcomes[j]} = {"renamed", "conflict"}

\* C2 as amended: of two entries that resolve to the same target name at most
\* one is renamed and whatever is not renamed is counted as failed; exactly
\* one is renamed and the other reported as a conflict when no glyph had the
\* target name at the start of the batch and the host's name setter did not
\* raise; renamed_count + failed_count is the number of resolvable entries.
C2_AtMostOne ==
    BatchDone =>
        /\ renamed_count + failed_count = Cardinality(Resolvable)
        /\ renamed_count = Cardinality({ i \in DOMAIN outcomes : outcomes[i] = "renamed" })
        /\ \A i, j \in DOMAIN afii_glyphs :
               SameTarget(i, j) =>
                   /\ ~(outcomes[i] = "renamed" /\ outcomes[j] = "renamed")
                   /\ ( /\ ~HasGlyph(font0, afii_glyphs[i][2])
                        /\ "failed" \notin {outcomes[i], outcomes[j]} )
                          => {outcomes[i], outcomes[j]} = {"renamed", "conflict"}

C2_Witness ==
    /\ BatchDone
    /\ Len(afii_glyphs) = 2
    /\ SameTarget(1, 2)
    /\ outcomes = <<"renamed", "conflict">>
    /\ renamed_count = 1
    /\ failed_count = 1

\* C6: the resolver gives a result exactly for the keys of the table, so the
\* triples main builds are those of the selected names that are keys, one
\* each; for the selection afii10017, afii99999, unrelated there is exactly
\* one triple, for afii10017.
TriplesBuilt ==
    \/ pc \in {"confirm", "renaming"}
    \/ pc = "done" /\ alerts # <<>> /\ alerts[Len(alerts)] \in {"No AFII Glyphs", "Complete"}

C6_ExactlyKeys ==
    /\ \A n \in AllIdents \cup MainNames :
           (get_new_name_for_afii(n) = <<None, None>>) <=> (n \notin DOMAIN AFII_TABLE)
    /\ TriplesBuilt =>
           /\ { afii_glyphs[i][1] : i \in DOMAIN afii_glyphs } = Resolvable
           /\ Len(afii_glyphs) = Cardinality(Resolvable)
           /\ \A i \in DOMAIN afii_glyphs :
                  <<afii_glyphs[i][2], afii_glyphs[i][3]>>
                      = get_new_name_for_afii(afii_glyphs[i][1])
           /\ SelectedNames(font0, selected) = {"afii10017", "afii99999", "unrelated"}
                  => Len(afii_glyphs) = 1 /\ afii_glyphs[1][1] = "afii10017"

C6_Witness ==
    /\ pc = "confirm"
    /\ SelectedNames(font0, selected) = {"afii10017", "afii99999", "unrelated"}
    /\ Len(afii_glyphs) = 1
    /\ afii_glyphs[1][1] = "afii10017"

----------------------------------------------------------------------------
(* Properties of the scripts that create glyphs *)

\* the step is the Generate button with at least one variant collected
GenerateStep ==
    /\ script = "numbers"
    /\ pc = "dialog"
    /\ pc' = "done"
    /\ call'.op = "createNumberVariants"

\* glyphs of gl named <base>.<suffix> for a base number and a collected suffix
ExistingVariants(gl, suffixes) ==
    { i \in DOMAIN gl :
        \E k \in DOMAIN base_numbers, j \in DOMAIN suffixes :
            gl[i].name = base_numbers[k] \o "." \o suffixes[j] }

\* the name up to its first dot
RECURSIVE BaseOf(_)
BaseOf(n) ==
    IF n = "" \/ SubSeq(n, 1, 1) = "." THEN ""
    ELSE SubSeq(n, 1, 1) \o BaseOf(SubSeq(n, 2, Len(n)))

\* the glyph is in the font afterwards, with every field as before
StillThere(g, gl) == \E i \in DOMAIN gl : gl[i] = g

\* a step removes or changes some glyph of the font
SomeGlyphGone == \E i \in DOMAIN glyphs : ~StillThere(glyphs[i], glyphs')

\* glyphs of the font after the step that were not in it before
AddedGlyphs == { i \in DOMAIN glyphs' : glyphs'[i].gid \notin Gids(glyphs) }

C9_Kept ==
    /\ (GenerateStep /\ ~call'.arg[2]) =>
           \A i \in ExistingVariants(glyphs, call'.arg[1]) : StillThere(glyphs[i], glyphs')
    /\ SomeGlyphGone => (GenerateStep /\ call'.arg[2])
    /\ script = "addmissing" =>
           \A i \in AddedGlyphs : glyphs'[i].name \notin GlyphNames(glyphs)

\* C9 as stated: no script deletes or replaces an existing glyph unless
\* overwrite is checked.  With overwrite unchecked every existing glyph
\* named <base>.<suffix> is unchanged after Generate and is counted as
\* skipped; a glyph goes away only in a Generate step with overwrite
\* checked; Add Missing Glyphs adds no glyph whose exact name exists.
C9_SkippedAll ==
    [][ /\ C9_Kept
        /\ (GenerateStep /\ ~call'.arg[2]) =>
               skipped_count' >= Cardinality(ExistingVariants(glyphs, call'.arg[1]))
      ]_vars

\* C9: no script deletes or replaces an existing glyph unless overwrite is
\* checked.  With overwrite unchecked every existing glyph named
\* <base>.<suffix> is unchanged after Generate, and it is counted as skipped
\* when its base glyph is in the font (one whose base glyph is missing is
\* left alone without being counted); a glyph goes away only in a Generate
\* step with overwrite checked; Add Missing Glyphs adds no glyph whose exact
\* name exists; glyph names stay distinct.
C9_NoSilentOverwrite ==
    /\ [](DistinctNames(glyphs))
    /\ [][ /\ C9_Kept
           /\ (GenerateStep /\ ~call'.arg[2]) =>
                  LET suffixes == call'.arg[1]
                      existing == ExistingVariants(glyphs, suffixes)
                      withBase == { i \in existing :
                                      HasGlyph(glyphs, BaseOf(glyphs[i].name)) } IN
                  /\ skipped_count' >= Cardinality(withBase)
                  /\ (withBase = {} /\ \A j, k \in DOMAIN suffixes :
                                           suffixes[j] = suffixes[k] => j = k)
                         => skipped_count' = 0
         ]_vars

\* Generate ran with overwrite unchecked on a font that had a variant with
\* its base glyph and lacked another: one skipped, one created, the old
\* one untouched
C9_Witness ==
    /\ script = "numbers"
    /\ pc = "done"
    /\ call.op = "createNumberVariants"
    /\ ~call.arg[2]
    /\ skipped_count >= 1
    /\ created_count >= 1
    /\ \E i \in ExistingVariants(font0, call.arg[1]) : StillThere(font0[i], glyphs)

----------------------------------------------------------------------------
(* Properties of the scripts' opening checks *)

\* the scripts that work on the selection
NeedSelection ==
    {"afii", "widths", "sidebearings", "italicize", "italicizeEach", "recolor"}

NoFont == ~fontOpen

TooFewMasters == fontOpen /\ script = "sidebearings" /\ Cardinality(masters) < 2

NothingSelected ==
    fontOpen /\ ~TooFewMasters /\ script \in NeedSelection /\ selected = {}

\* the script has run as far as it runs without the user
Ran == pc # "start"

\* the script changed nothing and opened no window
NothingDone ==
    /\ pc = "done"
    /\ glyphs = font0
    /\ dialog = "none"
    /\ nextGid = Len(font0) + 1
    /\ afii_glyphs = <<>> /\ renamed_count = 0 /\ created_count = 0 /\ added_count = 0

\* C10: a script started with no font open, or (if it works on the selection)
\* with nothing selected, or (the sidebearing script) on a font with fewer
\* than two masters, shows exactly one alert, naming the failed check, and
\* ends with every glyph, layer, width and colour as it was and no dialog
\* opened.
C10_PreconditionFailure ==
    Ran =>
        /\ NoFont => alerts = <<"No Font Open">> /\ NothingDone
        /\ TooFewMasters => alerts = <<"Only One Master">> /\ NothingDone
        /\ NothingSelected => alerts = <<"No Selection">> /\ NothingDone

\* the sidebearing script was run on a one-master font with glyphs selected
\* and ended on its alert
C10_Witness ==
    /\ Ran
    /\ script = "sidebearings"
    /\ TooFewMasters
    /\ selected # {}
    /\ glyphs # <<>>
    /\ alerts = <<"Only One Master">>
    /\ dialog = "none"

----------------------------------------------------------------------------
(* Properties of the scripts that read a source font *)

SupportedExtensions == {".glyphs", ".glyphx", ".ufo", ".ttf", ".otf"}

\* the step reads the source the file panel returned
PickStep == pc = "pick" /\ call' # call

\* the step ended on the unsupported-format error for extension ext: the
\* message names the extension, no reader ran, the font is as it was
UnsupportedReported(ext) ==
    /\ call'.result[1] = FALSE
    /\ call'.result[3] = "none"
    /\ \/ call'.op = "get_glyphs_and_data"
          /\ call'.result[2] = "Unsupported format: " \o lower(ext)
       \/ call'.op = "read_widths"
          /\ startswith(call'.result[2], "Unsupported file format: " \o lower(ext) \o "\n")
    /\ alerts' = Append(alerts, "Error")
    /\ glyphs' = glyphs
    /\ pc' = "done"

Contains(s, sub) ==
    \E i \in 1..(Len(s) - Len(sub) + 1) : SubSeq(s, i, i + Len(sub) - 1) = sub

\* the library the chosen format needs is not installed
MissingLibrary(ext, isdir) ==
    IF lower(ext) = ".ufo" THEN ~DEFCON_AVAILABLE
    ELSE IF lower(ext) \in {".ttf", ".otf"} /\ ~isdir THEN ~FONTTOOLS_AVAILABLE
    ELSE FALSE

InstallRemedy(ext) ==
    IF lower(ext) = ".ufo" THEN "pip3 install defcon" ELSE "pip3 install fonttools"

\* C12: when the chosen source is a UFO and defcon is not installed, or a
\* TTF/OTF and fontTools is not installed, Add Missing Glyphs and Copy
\* Widths end on an error whose message names the install remedy, with no
\* glyph added and no width changed.
C12_MissingLibrary ==
    [][ (PickStep /\ MissingLibrary(call'.arg[1], call'.arg[2])) =>
            /\ call'.result[1] = FALSE
            /\ Contains(call'.result[2], InstallRemedy(call'.arg[1]))
            /\ alerts' = Append(alerts, "Error")
            /\ glyphs' = glyphs
            /\ pc' = "done"
      ]_vars

\* Copy Widths was given a TTF without fontTools, with glyphs selected
C12_Witness ==
    /\ call.op = "read_widths"
    /\ call.arg[1] = ".ttf"
    /\ call.arg[3] # <<>>
    /\ ~FONTTOOLS_AVAILABLE
    /\ selected # {}
    /\ Contains(call.result[2], "pip3 install fonttools")
    /\ alerts = <<"Error">>
    /\ glyphs = font0
    /\ pc = "done"

\* one iteration of the renaming loop
RenameStep == script = "afii" /\ pc = "renaming"

\* one iteration of the adding loop
AddStep == script = "addmissing" /\ pc = "adding"

\* one click on Transform that reaches the loop over the layers
TransformStep ==
    /\ script \in { "italicize", "italicizeEach" }
    /\ pc = "dialog"
    /\ clicks' = clicks + 1
    /\ ~startswith(call'.result[3], "Error")

\* the item is processed, counted once, and the loop goes on to the next
RenameStepOK ==
    /\ idx' = idx + 1
    /\ renamed_count' + failed_count' = idx
    /\ renamed_count' = renamed_count + (IF outcomes'[idx] = "renamed" THEN 1 ELSE 0)
    /\ outcomes'[idx] # "renamed" => glyphs' = glyphs
    /\ pc' = IF idx < Len(afii_glyphs) THEN "renaming" ELSE "done"

\* an item is added, or recorded as failed, or skipped because the font has it
AddStepOK ==
    LET glyph_name == missing_glyphs_sorted[idx]
        skipped == IF added_count' = added_count /\ failed_glyphs' = failed_glyphs
                   THEN 1 ELSE 0 IN
    /\ idx' = idx + 1
    /\ added_count' + Len(failed_glyphs') + skipped
           = added_count + Len(failed_glyphs) + 1
    /\ added_count' \in { added_count, added_count + 1 }
    /\ added_count' = added_count + 1 <=> Len(glyphs') = Len(glyphs) + 1
    /\ Len(failed_glyphs') > Len(failed_glyphs)
           => /\ failed_glyphs' = Append(failed_glyphs, glyph_name)
              /\ added_count' = added_count
              /\ glyphs' = glyphs
    /\ skipped = 1 => HasGlyph(glyphs, glyph_name) /\ glyphs' = glyphs
    /\ pc' = IF idx < Len(missing_glyphs_sorted) THEN "adding" ELSE "done"

\* the layers one click on Transform of the Italicize dialog goes through
Attempted(allMasters) ==
    get_selected_glyphs(glyphs, selected)
        \X (IF allMasters THEN masters ELSE { current_master })

\* every layer that does not fail is transformed and counted, every layer
\* that fails is counted as an error and nothing else
TransformStepOK ==
    LET allMasters == call'.arg[1]
        settings == call'.arg[3]
        failing == call'.arg[4]
        targets == Attempted(allMasters) IN
    /\ DOMAIN failing = targets
    /\ call'.result[1] = Cardinality({ t \in targets : failing[t] = "no" })
    /\ call'.result[2] = Cardinality({ t \in targets : failing[t] # "no" })
    /\ call'.result[1] + call'.result[2] = Cardinality(targets)
    /\ \A t \in targets :
           failing[t] = "no"
               => glyphs'[t[1]].layers[t[2]]
                    = transform_layer(glyphs[t[1]].layers[t[2]], settings[t[2]].condense[1],
                                      settings[t[2]].slant[1],
                                      settings[t[2]].sidebearing[1], "no").layer

\* C13: a failure on one item of a batch never aborts the batch.  In the
\* renaming loop, the adding loop and the Transform loop every item is
\* processed whether or not an earlier one failed, a failed item is not
\* counted as a success, and successes + failures (+ skipped items) equals
\* the number of items processed, up to the last item of the batch.
C13_BatchContinues ==
    [][ /\ RenameStep => RenameStepOK
        /\ AddStep => AddStepOK
        /\ (TransformStep /\ script = "italicize") => TransformStepOK ]_vars

\* a Transform click on at least two layers where the first layer failed and
\* a later one was transformed and counted
C13_Witness ==
    /\ script = "italicize"
    /\ call.op = "transform"
    /\ call.result[1] >= 1
    /\ call.result[2] = 1
    /\ \E t \in DOMAIN call.arg[4] :
           /\ call.arg[4][t] # "no"
           /\ \A u \in DOMAIN call.arg[4] : u # t => (u[1] > t[1] \/ (u[1] = t[1] /\ u[2] > t[2]))
    /\ alerts = << "Success" >>
    /\ pc = "done"

\* what the layers of a glyph hold, read off the layers themselves
SomePath(glyph) == \E m \in DOMAIN glyph.layers : glyph.layers[m].paths # <<>>

SomeComponent(glyph) == \E m \in DOMAIN glyph.layers : glyph.layers[m].components # <<>>

\* Color Glyphs by Content Type ran on an open font
Colored == script = "colorglyphs" /\ fontOpen /\ pc = "done"

\* C14: after Color Glyphs by Content Type runs, every glyph is in exactly
\* one class: green (5) iff some layer has a path and no layer has a
\* component, yellow (3) iff it has both paths and components (in the same
\* or in different layers), no colour iff it has only components or is
\* empty; the four counters count these classes and sum to the number of
\* glyphs; no path or component is changed.
C14_ContentClasses ==
    Colored =>
        /\ GREEN = 5 /\ YELLOW = 3
        /\ \A i \in DOMAIN glyphs :
               /\ glyphs[i].color = << GREEN >> <=> SomePath(glyphs[i]) /\ ~SomeComponent(glyphs[i])
               /\ glyphs[i].color = << YELLOW >> <=> SomePath(glyphs[i]) /\ SomeComponent(glyphs[i])
               /\ glyphs[i].color = <<>> <=> ~SomePath(glyphs[i])
               /\ glyphs[i].color \in { << GREEN >>, << YELLOW >>, <<>> }
        /\ call.op = "color_glyphs"
        /\ call.result[1] = Cardinality({ i \in DOMAIN glyphs : glyphs[i].color = << GREEN >> })
        /\ call.result[2] = Cardinality({ i \in DOMAIN glyphs : glyphs[i].color = << YELLOW >> })
        /\ call.result[3]
               = Cardinality({ i \in DOMAIN glyphs :
                                 ~SomePath(glyphs[i]) /\ SomeComponent(glyphs[i]) })
        /\ call.result[4]
               = Cardinality({ i \in DOMAIN glyphs :
                                 ~SomePath(glyphs[i]) /\ ~SomeComponent(glyphs[i]) })
        /\ call.result[1] + call.result[2] + call.result[3] + call.result[4] = Len(glyphs)
        /\ DOMAIN glyphs = DOMAIN font0
        /\ \A i \in DOMAIN glyphs :
               /\ glyphs[i].layers = font0[i].layers
               /\ glyphs[i].name = font0[i].name

\* a run that turned yellow a glyph with a path in one layer and a component
\* in another, and removed the colour of a glyph with components only
C14_Witness ==
    /\ Colored
    /\ \E i \in DOMAIN glyphs :
           /\ glyphs[i].color = << YELLOW >>
           /\ font0[i].color # << YELLOW >>
           /\ \A m \in DOMAIN glyphs[i].layers :
                  glyphs[i].layers[m].paths = <<>> \/ glyphs[i].layers[m].components = <<>>
    /\ \E i \in DOMAIN glyphs :
           /\ glyphs[i].color = <<>>
           /\ font0[i].color # <<>>
           /\ SomeComponent(glyphs[i])
    /\ call.result[2] = 1
    /\ call.result[3] = 1

\* the glyph names of the source font Add Missing Glyphs read
SourceRead == { call.arg[3][i].name : i \in DOMAIN call.arg[3] }

\* Add Missing Glyphs read a source font and ended with the alert title
AddMissingEnded(title) ==
    /\ script = "addmissing"
    /\ pc = "done"
    /\ call.op = "get_glyphs_and_data"
    /\ call.result[1]
    /\ alerts = << title >>

\* C15: when Add Missing Glyphs reports that the font already contains all
\* glyphs of the source font, and after a confirmed run in which no addition
\* fails, every glyph name of the source font is a glyph name of the
\* current font.
C15_AllSourceGlyphsPresent ==
    /\ AddMissingEnded("No Missing Glyphs") => SourceRead \subseteq GlyphNames(glyphs)
    /\ (AddMissingEnded("Success") /\ failed_glyphs = <<>>)
           => SourceRead \subseteq GlyphNames(glyphs)

\* Copy Widths from Source Font read a source and reported success
WidthsCopied ==
    /\ script = "widths"
    /\ pc = "done"
    /\ call.op = "read_widths"
    /\ alerts = << "Success" >>

\* the widths the source font read has for a glyph name, for a Unicode value
SourceWidthsOfName(name) ==
    { call.arg[3][i].width : i \in { j \in DOMAIN call.arg[3] : call.arg[3][j].name = name } }

SourceWidthsOfUnicode(unicode) ==
    { call.arg[3][i].width :
        i \in { j \in DOMAIN call.arg[3] :
                  \E k \in DOMAIN call.arg[3][j].unicodes :
                      format04X(call.arg[3][j].unicodes[k]) = unicode } }

\* C16: after a successful run of Copy Widths, for every selected glyph and
\* every master: if the glyph's name is in the source its width is the
\* source width for that name; otherwise, if its Unicode value is in the
\* source, its width is the source width for that Unicode value; a selected
\* glyph matched by neither, and every unselected glyph, keeps its widths.
C16_WidthsByNameThenUnicode ==
    WidthsCopied =>
        /\ DOMAIN glyphs = DOMAIN font0
        /\ \A i \in DOMAIN glyphs :
               LET g == glyphs[i]
                   byName == SourceWidthsOfName(g.name)
                   byUnicode == IF Truthy(g.unicode) THEN SourceWidthsOfUnicode(g.unicode)
                                ELSE {} IN
               IF g.gid \in selected /\ byName # {}
                   THEN \A m \in masters : g.layers[m].width \in byName
               ELSE IF g.gid \in selected /\ byUnicode # {}
                   THEN \A m \in masters : g.layers[m].width \in byUnicode
               ELSE g = font0[i]

\* Copy of the sidebearing dialog ran through its loop and reported
SidebearingsCopied ==
    /\ script = "sidebearings"
    /\ pc = "done"
    /\ call.op = "copy_sidebearings"
    /\ alerts = << "Success" >>

\* C17: after Copy in the sidebearing dialog, for every selected glyph and
\* every checked target master: if 'Left (LSB)' is checked the target
\* layer's LSB equals the source layer's LSB, if 'Right (RSB)' is checked
\* the target layer's RSB equals the source layer's RSB, for every
\* combination of the three option checkboxes, 'Width' checked included.
C17_SidebearingsCopied ==
    SidebearingsCopied =>
        LET target_masters == call.arg[1]
            copy_left == call.arg[2]
            copy_right == call.arg[3] IN
        \A i \in get_selected_glyphs(glyphs, selected), m \in target_masters :
            /\ copy_left => LSB(glyphs[i].layers[m]) = LSB(glyphs[i].layers[current_master])
            /\ copy_right => RSB(glyphs[i].layers[m]) = RSB(glyphs[i].layers[current_master])

\* C18: Copy of the sidebearing dialog never modifies a layer of the source
\* master, nor a layer of a master whose checkbox is unchecked, nor any
\* layer of an unselected glyph; the reported total is the number of
\* (selected glyph, checked target master) pairs whose layers exist.
C18_CopyFrame ==
    (script = "sidebearings" /\ call.op = "copy_sidebearings") =>
        LET target_masters == call.arg[1]
            selected_glyphs == get_selected_glyphs(font0, selected) IN
        /\ DOMAIN glyphs = DOMAIN font0
        /\ current_master \notin target_masters
        /\ \A i \in DOMAIN glyphs, m \in masters :
               (m = current_master \/ m \notin target_masters \/ i \notin selected_glyphs)
                   => glyphs[i].layers[m] = font0[i].layers[m]
        /\ \A i \in DOMAIN glyphs : [glyphs[i] EXCEPT !.layers = font0[i].layers] = font0[i]
        /\ SidebearingsCopied
               => call.result[1]
                      = Cardinality({ << i, m >> \in selected_glyphs \X target_masters :
                                        /\ current_master \in DOMAIN font0[i].layers
                                        /\ m \in DOMAIN font0[i].layers })

\* a Copy with one master checked and another unchecked, on a font with an
\* unselected glyph, that changed a target layer
C18_Witness ==
    /\ SidebearingsCopied
    /\ call.arg[1] # {}
    /\ masters \ (call.arg[1] \cup { current_master }) # {}
    /\ \E i \in DOMAIN glyphs : glyphs[i].gid \notin selected
    /\ \E i \in DOMAIN glyphs, m \in call.arg[1] : glyphs[i].layers[m] # font0[i].layers[m]
    /\ call.result[1] = Cardinality(get_selected_glyphs(font0, selected))

\* the layers a Transform click of either script attempted, its settings per
\* master and where the host raised
Clicked == call'.arg[2]

SettingsOf(m) == call'.arg[3][m]

Succeeded(t) == call'.arg[4][t] = "no"

\* C19: where transform_layer succeeds, the new LSB and RSB are the ones
\* before the call times percentage / 100, so a sidebearing percentage of
\* 100 keeps them for any condense percentage > 0 and any slant angle; with
\* condense 100, slant 0 and sidebearing 100 the whole layer is unchanged.
C19_SidebearingScale ==
    [][ TransformStep =>
          \A t \in Clicked :
              Succeeded(t) =>
                  LET before == glyphs[t[1]].layers[t[2]]
                      after == glyphs'[t[1]].layers[t[2]]
                      condense == SettingsOf(t[2]).condense[1]
                      slant == SettingsOf(t[2]).slant[1]
                      percentage == SettingsOf(t[2]).sidebearing[1] IN
                  /\ condense > 0
                  /\ 100 * LSB(after) = percentage * LSB(before)
                  /\ 100 * RSB(after) = percentage * RSB(before)
                  /\ percentage = 100 => LSB(after) = LSB(before) /\ RSB(after) = RSB(before)
                  /\ (condense = 100 /\ slant = 0 /\ percentage = 100) => after = before ]_vars

\* one click of Italicize Each Master that condensed master 1 to 50% keeping
\* its sidebearings and slanted master 2 halving its sidebearings
C19_Witness ==
    /\ script = "italicizeEach"
    /\ call.op = "transform"
    /\ clicks = 1
    /\ pc = "done"
    /\ call.arg[3][1] = Fields(<< 50 >>, << 0 >>, << 100 >>)
    /\ call.arg[3][2] = Fields(<< 100 >>, << 45 >>, << 50 >>)
    /\ \E i \in get_selected_glyphs(glyphs, selected) :
           /\ call.arg[4][<< i, 1 >>] = "no"
           /\ call.arg[4][<< i, 2 >>] = "no"
           /\ LSB(glyphs[i].layers[1]) = LSB(font0[i].layers[1])
           /\ RSB(glyphs[i].layers[1]) = RSB(font0[i].layers[1])
           /\ glyphs[i].layers[1].width < font0[i].layers[1].width
           /\ 2 * LSB(glyphs[i].layers[2]) = LSB(font0[i].layers[2])
           /\ 2 * RSB(glyphs[i].layers[2]) = RSB(font0[i].layers[2])
           /\ RSB(font0[i].layers[2]) > 0

\* what one call of transform_layer may leave of a layer
Outcomes(layer, fields) ==
    { transform_layer(layer, fields.condense[1], fields.slant[1], fields.sidebearing[1],
                      fails).layer : fails \in { "no", "shapes", "sidebearings" } }

\* C20: in the Italicize dialog, with 'Apply to all masters' unchecked a
\* Transform click modifies only the current master's layer of each selected
\* glyph; with it checked each master layer of each selected glyph goes
\* through transform_layer exactly once; layers of other masters and of
\* unselected glyphs are unchanged, and total_layers + errors is the number
\* of layers attempted.
C20_TransformFrame ==
    [][ (TransformStep /\ script = "italicize") =>
          LET allMasters == call'.arg[1]
              selected_glyphs == get_selected_glyphs(glyphs, selected)
              attempted == selected_glyphs
                               \X (IF allMasters THEN masters ELSE { current_master }) IN
          /\ DOMAIN glyphs' = DOMAIN glyphs
          /\ \A i \in DOMAIN glyphs :
                 /\ [glyphs'[i] EXCEPT !.layers = glyphs[i].layers] = glyphs[i]
                 /\ \A m \in masters :
                        IF << i, m >> \in attempted
                            THEN /\ glyphs'[i].layers[m]
                                        \in Outcomes(glyphs[i].layers[m], SettingsOf(m))
                                 /\ Succeeded(<< i, m >>)
                                        => glyphs'[i].layers[m]
                                             = transform_layer(glyphs[i].layers[m],
                                                   SettingsOf(m).condense[1],
                                                   SettingsOf(m).slant[1],
                                                   SettingsOf(m).sidebearing[1], "no").layer
                        ELSE glyphs'[i].layers[m] = glyphs[i].layers[m]
          /\ call'.result[1] + call'.result[2] = Cardinality(attempted) ]_vars

\* a click with 'Apply to all masters' unchecked on a font with an
\* unselected glyph: the current master's layer of a selected glyph changed,
\* its other layers did not
C20_Witness ==
    /\ script = "italicize"
    /\ call.op = "transform"
    /\ clicks = 1
    /\ ~call.arg[1]
    /\ pc = "done"
    /\ \E i \in DOMAIN glyphs : glyphs[i].gid \notin selected
    /\ \E i \in get_selected_glyphs(glyphs, selected) :
           /\ glyphs[i].layers[current_master] # font0[i].layers[current_master]
           /\ \A m \in masters \ { current_master } : glyphs[i].layers[m] = font0[i].layers[m]
    /\ call.result[1] = Cardinality(get_selected_glyphs(glyphs, selected))
    /\ call.result[2] = 0

----------------------------------------------------------------------------
(* Properties of Recolor Glyph Parts *)

\* where the shapes of a font are: glyph, master, list and index in the list
Positions(gl, ms) ==
    UNION { { << i, m, "paths", k >> : k \in DOMAIN gl[i].layers[m].paths }
              \cup { << i, m, "components", k >> : k \in DOMAIN gl[i].layers[m].components } :
            << i, m >> \in (DOMAIN gl) \X ms }

ShapeAt(gl, pos) ==
    IF pos[3] = "paths" THEN gl[pos[1]].layers[pos[2]].paths[pos[4]]
    ELSE gl[pos[1]].layers[pos[2]].components[pos[4]]

\* a click on Recolor (Cancel closes the window without an alert)
RecolorStep ==
    /\ script = "recolor"
    /\ pc = "dialog"
    /\ pc' = "dialog" \/ alerts' # alerts

\* a click on Recolor that reaches the loop over the glyphs
RecolorRun == RecolorStep /\ ~startswith(call'.result[3], "Error")

\* the glyphs the click runs over, the new colour, and the layers in which
\* the host refuses the assignment
ChosenGlyphs == IF call'.arg[2] THEN DOMAIN glyphs ELSE get_selected_glyphs(glyphs, selected)

NewColor == rgb_to_nscolor(call'.arg[1][1][1], call'.arg[1][2][1], call'.arg[1][3][1])

Refused(pos) == << pos[1], pos[2] >> \in call'.arg[3]

\* the shapes of the chosen glyphs whose fill colour matches the target colour
Matching ==
    { pos \in Positions(glyphs, masters) :
        /\ pos[1] \in ChosenGlyphs
        /\ Truthy(ShapeAt(glyphs, pos).fillColor)
        /\ colors_match_exact(ShapeAt(glyphs, pos).fillColor, target_color_obj) }

\* nothing of the font but fill colours differs after the step
OnlyFillColors ==
    /\ DOMAIN glyphs' = DOMAIN glyphs
    /\ Positions(glyphs', masters) = Positions(glyphs, masters)
    /\ \A i \in DOMAIN glyphs :
          /\ [glyphs'[i] EXCEPT !.layers = glyphs[i].layers] = glyphs[i]
          /\ \A m \in masters : glyphs'[i].layers[m].width = glyphs[i].layers[m].width
    /\ \A pos \in Positions(glyphs, masters) :
          [ShapeAt(glyphs', pos) EXCEPT !.fillColor = ShapeAt(glyphs, pos).fillColor]
              = ShapeAt(glyphs, pos)

\* C21 as stated: after Recolor runs over the chosen glyphs, a shape of a
\* master layer has the new fill colour iff its fill colour matched the target
\* colour before the run, every other shape is unchanged, the reported number
\* of recoloured shapes is the number of matching shapes, and when none
\* matches nothing changes and the dialog stays open.
C21_RecolorExact ==
    [][RecolorRun =>
          /\ \A pos \in { q \in Positions(glyphs, masters) : q[1] \in ChosenGlyphs } :
                /\ ShapeAt(glyphs', pos).fillColor = NewColor <=> pos \in Matching
                /\ pos \notin Matching => ShapeAt(glyphs', pos) = ShapeAt(glyphs, pos)
          /\ call'.result[1] = Cardinality(Matching)
          /\ Matching = {} => glyphs' = glyphs /\ dialog' = "Recolor Glyph Parts"]_vars

\* C21, amended: a click on Recolor that reaches the loop assigns the new fill
\* colour to exactly the shapes of the chosen glyphs, in every master layer,
\* whose fill colour matched the target colour and whose assignment the host
\* did not refuse; every other shape and everything else of the font is
\* unchanged; the reported number is the number of shapes assigned; when it
\* is zero nothing changes and the dialog stays open, otherwise the run ends
\* with the Success alert.
C21_RecolorMatching ==
    [][RecolorRun =>
          LET assigned == { pos \in Matching : ~Refused(pos) } IN
          /\ OnlyFillColors
          /\ \A pos \in Positions(glyphs, masters) :
                ShapeAt(glyphs', pos).fillColor =
                    IF pos \in assigned THEN NewColor ELSE ShapeAt(glyphs, pos).fillColor
          /\ call'.result[1] = Cardinality(assigned)
          /\ IF assigned = {}
                 THEN /\ glyphs' = glyphs
                      /\ dialog' = "Recolor Glyph Parts"
                      /\ pc' = "dialog"
                      /\ alerts' = alerts
             ELSE /\ dialog' = "none"
                  /\ pc' = "done"
                  /\ alerts' = Append(alerts, "Success")]_vars

\* a run that recoloured a shape, left a shape of another colour and a shape
\* without colour as they were, and left a matching shape alone because the
\* host refused the assignment
C21_Witness ==
    /\ script = "recolor"
    /\ pc = "done"
    /\ call.op = "recolor"
    /\ call.result[1] >= 1
    /\ call.arg[3] # {}
    /\ \E pos \in Positions(font0, masters) :
          /\ colors_match_exact(ShapeAt(font0, pos).fillColor, target_color_obj)
          /\ ShapeAt(font0, pos).fillColor # ShapeAt(glyphs, pos).fillColor
    /\ \E pos \in Positions(font0, masters) :
          /\ colors_match_exact(ShapeAt(font0, pos).fillColor, target_color_obj)
          /\ << pos[1], pos[2] >> \in call.arg[3]
          /\ ShapeAt(font0, pos) = ShapeAt(glyphs, pos)
    /\ \E pos \in Positions(font0, masters) :
          /\ Truthy(ShapeAt(font0, pos).fillColor)
          /\ ~colors_match_exact(ShapeAt(font0, pos).fillColor, target_color_obj)
          /\ ShapeAt(font0, pos) = ShapeAt(glyphs, pos)
    /\ \E pos \in Positions(font0, masters) :
          /\ ~Truthy(ShapeAt(font0, pos).fillColor)
          /\ ShapeAt(font0, pos) = ShapeAt(glyphs, pos)

----------------------------------------------------------------------------
(* Properties of createNumberVariants *)

\* the base digit glyphs the font had when the call started
PresentBases == { b \in Range(base_numbers) : GlyphIndex(font0, b) # 0 }

\* the glyphs the call created
CreatedVariants == { i \in DOMAIN glyphs : glyphs[i].gid \notin Gids(font0) }

\* glyph g is a variant of base digit b as the call builds it
VariantOf(g, b) ==
    LET base_glyph == font0[GlyphIndex(font0, b)] IN
    /\ \A m \in masters :
          /\ g.layers[m].components = << GSComponent(b) >>
          /\ g.layers[m].width = base_glyph.layers[m].width
    /\ g.category = base_glyph.category
    /\ g.subCategory = base_glyph.subCategory

\* C22: after createNumberVariants(suffixes, overwrite) the font has a glyph
\* <base>.<suffix> for every base digit glyph it had and every chosen suffix;
\* each glyph the call created has, in every master, exactly one component,
\* referencing its base glyph, and the base glyph's layer width, and has the
\* base glyph's category and subCategory; a missing base glyph gets no
\* variant and does not keep the other base glyphs from getting theirs.
C22_VariantsCreated ==
    (script = "numbers" /\ call.op = "createNumberVariants") =>
        LET suffixes == Range(call.arg[1]) IN
        /\ \A b \in PresentBases, suffix \in suffixes :
              GlyphIndex(glyphs, b \o "." \o suffix) # 0
        /\ \A i \in CreatedVariants :
              \E b \in PresentBases, suffix \in suffixes :
                 /\ glyphs[i].name = b \o "." \o suffix
                 /\ VariantOf(glyphs[i], b)
        /\ \A b \in Range(base_numbers) \ PresentBases, suffix \in suffixes :
              LET new_name == b \o "." \o suffix IN
              /\ GlyphIndex(glyphs, new_name) # 0 <=> GlyphIndex(font0, new_name) # 0
              /\ GlyphIndex(glyphs, new_name) # 0
                    => glyphs[GlyphIndex(glyphs, new_name)] = font0[GlyphIndex(font0, new_name)]

\* a call on a font with 'one' and a variant of 'zero' but without 'zero',
\* with two suffixes: 'one' got both variants
C22_Witness ==
    /\ script = "numbers"
    /\ call.op = "createNumberVariants"
    /\ Len(call.arg[1]) = 2
    /\ GlyphIndex(font0, "zero") = 0
    /\ GlyphIndex(font0, "zero.lf") # 0
    /\ GlyphIndex(font0, "one") # 0
    /\ Cardinality(CreatedVariants) = 2
    /\ \A i \in CreatedVariants : VariantOf(glyphs[i], "one")

====
